---- MODULE Spec2Model ----
(***************************************************************************)
(* A model of the attest core of lsfr: the suite runner (Suite.Run), the   *)
(* process supervisor (Do.Start / Stop / Kill / Restart / Done), the       *)
(* pollers (eventually / consistently) and the HTTP / CLI assertions.      *)
(*                                                                         *)
(* The specifications of the module:                                       *)
(*   Spec        Suite.Run over every suite, its bodies spawning children  *)
(*   SpecDo      the harness of one run under every supervisor call        *)
(*   SpecAssert  one Assert call: poller, executor and check step          *)
(*   SpecPromise a promise chain: qualifiers, Returns, matcher, Assert     *)
(*   SpecCheck   assertions with several checkers per channel              *)
(*   SpecConc    one Do.Concurrently call                                  *)
(*   SpecMap     the process map under concurrent callers                  *)
(*   SpecStop    Stop / Kill / Restart on one child, signal by signal      *)
(*   SpecPoll    eventually, then consistently, on a condition that settles*)
(*   SpecChk     the checkers and JSONFieldChecker as pure functions       *)
(*   SpecCfg     Suite.WithConfig and the config Run uses                  *)
(*   SpecNext    lsfr test / lsfr next on a challenge directory            *)
(*   SpecDone    Do.Done: every Stop it calls returns (with fairness)      *)
(*   SpecLog     the log file of a record under concurrent Stop and Kill   *)
(*   SpecWindow  the pollers under zero, negative and positive timeouts    *)
(*   SpecCancelled  the supervisor calls of a body whose scope is cancelled*)
(***************************************************************************)
EXTENDS Integers, Sequences, FiniteSets, TLC

(***************************************************************************)
(* Bounds of the model.                                                    *)
(***************************************************************************)
MaxTests == 2      \* tests registered with Suite.Test
MaxPids  == 2      \* child processes spawned during one run
MaxPort  == 2      \* ports the kernel may hand out
MaxTime  == 4      \* clock ticks observed during one Assert call
MaxTimeout == 3    \* largest promise timeout, in ticks
MaxPoll  == 2      \* largest RetryPollInterval, in ticks
MaxFns == 3        \* functions handed to one Concurrently call

Names == {"n1", "n2"}          \* logical process names
ArgLists == {"x", "y"}         \* user-supplied argument lists
Ports == 1..MaxPort

(***************************************************************************)
(* State of the suite runner and of the harness.                           *)
(***************************************************************************)
VARIABLES
    setupFn,        \* Suite.setupFn is set
    tests,          \* Suite.tests: registration numbers, in slice order
    pc,             \* position of Suite.Run
    idx,            \* position in tests the for loop is at
    cur,            \* position of the body being run (0 is the setup body)
    failed,         \* the local variable failed of Suite.Run
    ret,            \* the value returned by Suite.Run ("none" before)
    parentDone,     \* the scope passed to Run has been cancelled
    doCancelled,    \* do.cancel() has been called
    processes,      \* Do.processes: name -> Process record
    procs,          \* OS view: pid -> state of the spawned child
    pending,        \* Do.Done: names collected by Range, still to be stopped
    started,        \* history: positions of the bodies started, in order
    active,         \* history: positions of bodies started and not yet over
    panicked,       \* history: positions of the bodies that panicked
    lastStart,      \* history: name -> port and args of the latest Start
    restarts,       \* history: name -> Restart calls since the latest Start
    allocBy,        \* history: operations that asked the kernel for a port
    sigs,           \* history: pid -> signals Done and the scope sent the live child
    doneStops,      \* history: name -> Stop calls made by Do.Done
    printed         \* history: the result lines Run has printed, in order

runVars == <<setupFn, tests, pc, idx, cur, failed, ret, parentDone,
             doCancelled, processes, procs, pending, started, active,
             panicked, lastStart, restarts, allocBy, sigs, doneStops,
             printed>>

(***************************************************************************)
(* State of one Assert call (specification SpecAssert).                    *)
(***************************************************************************)
VARIABLES
    kind,           \* "http" or "cli"
    timing,         \* promise timing mode
    timeout,        \* promise timeout, in ticks
    pollInterval,   \* config.RetryPollInterval, in ticks
    statusCheckers, \* status / exit code checkers: sequence of Is(v)
    bodyCheckers,   \* body / output checkers: sequence of Is(v)
    stable,         \* every response of the system under test is acceptable
    apc,            \* position of the Assert call
    now,            \* the clock
    deadline,       \* the local variable deadline of the poller
    wake,           \* when the timer of time.After fires
    ctxDone,        \* the promise's scope has been cancelled
    obs,            \* recorded observation: [code, text]
    pret,           \* value returned by the poller ("none" before)
    why,            \* which return statement of the poller was taken
    evals,          \* history: results of the evaluations of condition
    evalTimes,      \* history: clock at the start of each evaluation
    t0,             \* history: clock when the poller was entered
    cancelAt,       \* history: position of Assert when the scope was cancelled
    outcome         \* how Assert ended: "none", "returned", "raised"

assertVars == <<kind, timing, timeout, pollInterval, statusCheckers,
                bodyCheckers, stable, apc, now, deadline, wake, ctxDone, obs,
                pret, why, evals, evalTimes, t0, cancelAt, outcome>>

(***************************************************************************)
(* State of the promise and of the assertion built from it.                *)
(***************************************************************************)
VARIABLES
    jsonCheckers,   \* JSON field checkers: sequence of [path, expected]
    lastCall,       \* history: the latest qualifier call and the promise before it
    lastExec,       \* history: how the latest execution ended, and its result
    raisedBy        \* history: the panic that left Assert: [chan, i]

promVars == <<jsonCheckers, lastCall, lastExec, raisedBy>>

(***************************************************************************)
(* The map entry of the supervised name (specification SpecStop).          *)
(***************************************************************************)
VARIABLES
    entry,          \* processes.Get(name): <<>> or <<[gen, realPort, how]>>
    spawning,       \* the record startWithPort has built and not yet Set
    lookups         \* history: what each Do.HTTP(name, ...) call found

regVars == <<entry, spawning, lookups>>

(***************************************************************************)
(* The log file of one process record (specification SpecLog).             *)
(***************************************************************************)
VARIABLES
    logFile,        \* proc.logFile: TRUE while the field holds the handle
    closes,         \* calls of proc.logFile.Close() made so far
    closer          \* caller -> [op, pc, raced] of its Stop or Kill call

logVars == <<logFile, closes, closer>>

(***************************************************************************)
(* State of a challenge directory (specification SpecNext).                *)
(***************************************************************************)
VARIABLES
    stageCount,     \* challenge.Len(): stages registered for the challenge
    yaml,           \* lsfr.yaml: [current, completed]
    invocations     \* history: [cmd, passed, before, after] of each command run

nextVars == <<stageCount, yaml, invocations>>

(***************************************************************************)
(* State of a suite's configuration (specification SpecCfg).               *)
(***************************************************************************)
VARIABLES
    userCfg,        \* the Config handed to WithConfig
    sconfig,        \* Suite.config: <<>> is nil, <<c>> points to c
    effective       \* the config Run hands to newDo (<<>>: Run not entered)

cfgVars == <<userCfg, sconfig, effective>>

(***************************************************************************)
(* History of Do.waitForPort.                                              *)
(***************************************************************************)
VARIABLES
    probe           \* history: how the latest readiness probe ended

probeVars == <<probe>>

(***************************************************************************)
(* State of successive Check calls on one checker (specification SpecChk). *)
(***************************************************************************)
VARIABLES
    chk,            \* the checker: [op, values, length, checker]
    actualVal,      \* the string handed to Check
    jsonBody,       \* the document: path -> gjson result [type, str, len]
    jsonPath,       \* the path of the JSONFieldChecker ("": chk is used bare)
    verdicts        \* history: outcomes of the Check calls made so far

chkVars == <<chk, actualVal, jsonBody, jsonPath, verdicts>>

(***************************************************************************)
(* State of a poll followed by a second one (specification SpecPoll).      *)
(***************************************************************************)
VARIABLES
    cancelled,      \* history: clock and evaluations begun when the scope was cancelled
    settled,        \* history: evaluations begun before the system became stable
    firstPoll       \* history: how the first of two Assert calls ended

pollVars == <<cancelled, settled, firstPoll>>

(***************************************************************************)
(* State of one Do.Concurrently call (specification SpecConc).             *)
(***************************************************************************)
VARIABLES
    fns,            \* number of functions handed to Concurrently
    spawned,        \* functions the for loop has started a goroutine for
    wpc,            \* worker -> position of its goroutine
    wout,           \* history: worker -> how its function ended
    wgCount,        \* the counter of the WaitGroup
    panicMu,        \* worker holding panicMu (0: unlocked)
    panicErr,       \* the variable panicErr (0: nil)
    recorded,       \* history: panic values in the order they took panicMu
    cres            \* how Concurrently ended: [how, v]

concVars == <<fns, spawned, wpc, wout, wgCount, panicMu, panicErr, recorded, cres>>

(***************************************************************************)
(* State of the process map under concurrent callers (specification        *)
(* SpecMap).                                                               *)
(***************************************************************************)
VARIABLES
    mapM,           \* the map: key -> value (0: no entry)
    writer,         \* goroutine holding mu for writing (0: none)
    readers,        \* goroutines holding mu for reading
    gpc,            \* goroutine -> [op, key, val, pc] of its current call
    completed       \* history: key -> value of the latest Set that returned

mapVars == <<mapM, writer, readers, gpc, completed>>

(***************************************************************************)
(* State of one child under Do.Stop, Do.Kill and Do.Restart taken step by  *)
(* step (specification SpecStop).                                          *)
(***************************************************************************)
VARIABLES
    child,          \* the child: "Running", "Exiting", "Killed", "Stopped"
    reaped,         \* cmd.Wait() has returned for the child
    sup,            \* the call in progress: [op, sig, pc]
    elapsed,        \* ticks since Stop sent SIGTERM
    repl,           \* the replacement spawned by Restart ("none" before)
    calls,          \* calls issued so far
    life,           \* history: the states the child has been in
    sent            \* history: signals sent: [sig, by, at, to]

supVars == <<child, reaped, sup, elapsed, repl, calls, life, sent>>

vars == <<runVars, assertVars, promVars, concVars, mapVars, supVars, pollVars, chkVars, probeVars, cfgVars, nextVars, regVars, logVars>>

(***************************************************************************)
(* The harness scope: do.ctx is a child of the scope passed to Run, so it  *)
(* is done when either the parent is cancelled or do.cancel() was called.  *)
(***************************************************************************)
DoCtxDone == parentDone \/ doCancelled

\* The harness state the supervisor methods read and write.
Harness == [processes |-> processes, procs |-> procs]

\* A child counts as alive while it runs; SIGKILL and exit end it,
\* cmd.Wait() reaps it.
Alive(state) == state = "running"

\* Do.getProcess: the lookup panics when the name is not in the map.
getProcessPanics(h, name) == name \notin DOMAIN h.processes

\* threadsafe.Map.Set
MapSet(m, key, value) == [k \in DOMAIN m \cup {key} |-> IF k = key THEN value ELSE m[k]]

\* Do.Kill: SIGKILL to the process group, then the log file is closed.
\* The signal fails (and is only reported) when the group no longer exists.
Kill(h, name) ==
    LET proc == h.processes[name] IN
    IF proc.pid = 0 THEN h
    ELSE [processes |-> [h.processes EXCEPT ![name].logOpen = FALSE],
          procs |-> IF h.procs[proc.pid] = "running"
                    THEN [h.procs EXCEPT ![proc.pid] = "killed"]
                    ELSE h.procs]

\* Do.Stop: SIGTERM to the process group; on a signalling error return at
\* once.  Otherwise wait for the exit (cmd.Wait), escalating to Do.Kill when
\* the child does not exit within ProcessShutdownTimeout (graceful = FALSE),
\* and close the log file.
Stop(h, name, graceful) ==
    LET proc == h.processes[name] IN
    IF proc.pid = 0 THEN h
    ELSE IF h.procs[proc.pid] = "reaped" THEN h
    ELSE LET k == IF graceful \/ h.procs[proc.pid] # "running" THEN h ELSE Kill(h, name) IN
         [processes |-> [k.processes EXCEPT ![name].logOpen = FALSE],
          procs |-> [k.procs EXCEPT ![proc.pid] = "reaped"]]

\* The signals one Stop call delivers to a child in the given state:
\* SIGTERM, and the SIGKILL of the escalation when it does not exit in time.
StopSignals(state, graceful) ==
    IF state # "running" THEN <<>>
    ELSE IF graceful THEN <<[sig |-> "SIGTERM", by |-> "Stop"]>>
    ELSE <<[sig |-> "SIGTERM", by |-> "Stop"], [sig |-> "SIGKILL", by |-> "Kill"]>>

\* The port Restart hands to startWithPort.
RestartPort_Fresh(proc) == 0
RestartPort(proc) == proc.realPort

\* The arguments Restart hands to startWithPort.
RestartArgs(proc) == proc.args

(***************************************************************************)
(* Suite.Run: bookkeeping of the panic-isolating blocks.                   *)
(***************************************************************************)
\* The recover() of the setup block: failed = true on a panic.
SetupFailed_Ignored(p) == FALSE
SetupFailed(p) == p

\* The recover() of a test block.
TestFailed(f, p) == f \/ p

\* "if failed { break }" at the head of the for loop.
BreakLoop_Never == FALSE
BreakLoop == failed

\* Suite.Test: append the test to s.tests.
AppendTest_Front(ts, id) == <<id>> \o ts
AppendTest(ts, id) == Append(ts, id)

\* What Run prints when the body at position pos is over: the cross mark
\* (with SETUP or the test's name) in the recover of a panic, the check mark
\* after a test block "if !failed".
BodyLines(pos, p, f) ==
    (IF p THEN <<[mark |-> "cross", pos |-> pos]>> ELSE <<>>)
    \o (IF pos >= 1 /\ ~f THEN <<[mark |-> "check", pos |-> pos]>> ELSE <<>>)

\* The terminal line.
ResultLine(f) == [mark |-> IF f THEN "FAILED" ELSE "PASSED", pos |-> 0]

\* "select { case <-ctx.Done(): return false; default: }" at the loop head.
LoopCancelled_Never == FALSE
LoopCancelled == parentDone

\* The body at position cur is over, by a return (p = FALSE) or a panic
\* caught by its deferred recover (p = TRUE); Run goes on to the loop head.
EndBody(p) ==
    /\ failed' = (IF cur = 0 THEN SetupFailed(p) ELSE TestFailed(failed, p))
    /\ printed' = printed \o BodyLines(cur, p, failed')
    /\ panicked' = (IF p THEN panicked \cup {cur} ELSE panicked)
    /\ active' = active \ {cur}
    /\ idx' = (IF cur = 0 THEN idx ELSE idx + 1)
    /\ pc' = "loop"
    /\ UNCHANGED <<setupFn, tests, cur, ret, started>>

\* The body goes on after a harness operation returned.
Continue == UNCHANGED <<setupFn, tests, pc, idx, cur, failed, ret, started,
                        active, panicked, printed>>

\* A harness operation is being issued by the running body.
InBody == pc = "body"

(***************************************************************************)
(* Do.startWithPort on harness state h (the state left by Stop or Kill     *)
(* when called from Restart).  port = 0 asks the kernel for a port.        *)
(* res:     "ready"     the child accepts a connection in time             *)
(*          "spawnFail" cmd.Start fails, which panics                      *)
(*          "notReady"  the readiness probe times out                      *)
(*          "cancelled" the scope is cancelled during the readiness probe  *)
(***************************************************************************)
\* waitForPort after eventually has returned: "if !succeeded", then the
\* select whose default case is log.Fatalf.
ProbeFatal_Always(succeeded, done) == ~succeeded
ProbeFatal(succeeded, done) == ~succeeded /\ ~done

\* startWithPort's first statement: "select { case <-do.ctx.Done(): return".
StartReturns_Never(done) == FALSE
StartReturns(done) == done

startWithPort(h, name, port, args, caller) ==
    IF StartReturns(DoCtxDone)
    THEN /\ processes' = h.processes
         /\ procs' = h.procs
         /\ Continue
         /\ UNCHANGED <<lastStart, restarts, allocBy, parentDone, probe>>
    ELSE \E p \in (IF port = 0 THEN Ports ELSE {port}),
            res \in {"ready", "spawnFail", "notReady", "cancelled"} :
         /\ Len(h.procs) < MaxPids
         /\ allocBy' = (IF port = 0 THEN allocBy \cup {caller} ELSE allocBy)
         /\ parentDone' = (res = "cancelled")
         /\ probe' = (IF res = "spawnFail" THEN probe ELSE res)
         /\ CASE res = "spawnFail" ->
                   /\ procs' = h.procs
                   /\ processes' = h.processes
                   /\ UNCHANGED <<lastStart, restarts>>
                   /\ EndBody(TRUE)
              [] ProbeFatal(res = "ready", res = "cancelled") ->
                   /\ procs' = Append(h.procs, "running")
                   /\ processes' = h.processes
                   /\ pc' = "exited"
                   /\ UNCHANGED <<lastStart, restarts, setupFn, tests, idx, cur,
                                  failed, ret, started, active, panicked,
                                  printed>>
              [] OTHER ->
                   /\ procs' = Append(h.procs, "running")
                   /\ processes' = MapSet(h.processes, name,
                          [pid |-> Len(h.procs) + 1, realPort |-> p,
                           args |-> args, logOpen |-> TRUE])
                   /\ lastStart' = (IF caller = "Start"
                                    THEN [lastStart EXCEPT ![name] = [port |-> p, args |-> args]]
                                    ELSE lastStart)
                   /\ restarts' = [restarts EXCEPT ![name] =
                                      IF caller = "Start" THEN 0 ELSE @ + 1]
                   /\ Continue

(***************************************************************************)
(* Building the suite.                                                     *)
(***************************************************************************)
\* Suite.Setup
Setup ==
    /\ pc = "build"
    /\ setupFn' = TRUE
    /\ UNCHANGED <<tests, pc, idx, cur, failed, ret, parentDone, doCancelled,
                   processes, procs, sigs, pending, started, active, panicked,
                   lastStart, restarts, allocBy, doneStops, printed>>
    /\ UNCHANGED <<assertVars, promVars, concVars, mapVars, supVars, pollVars, chkVars, probeVars, cfgVars, nextVars, regVars, logVars>>

\* Suite.Test
Test ==
    /\ pc = "build"
    /\ Len(tests) < MaxTests
    /\ tests' = AppendTest(tests, Len(tests) + 1)
    /\ UNCHANGED <<setupFn, pc, idx, cur, failed, ret, parentDone, doCancelled,
                   processes, procs, sigs, pending, started, active, panicked,
                   lastStart, restarts, allocBy, doneStops, printed>>
    /\ UNCHANGED <<assertVars, promVars, concVars, mapVars, supVars, pollVars, chkVars, probeVars, cfgVars, nextVars, regVars, logVars>>

(***************************************************************************)
(* Suite.Run                                                               *)
(***************************************************************************)
\* Entry: newDo, defer do.Done(), var failed bool.
Run ==
    /\ pc = "build"
    /\ pc' = "setup"
    /\ UNCHANGED <<setupFn, tests, idx, cur, failed, ret, parentDone,
                   doCancelled, processes, procs, sigs, pending, started,
                   active, panicked, lastStart, restarts, allocBy, doneStops, printed>>
    /\ UNCHANGED <<assertVars, promVars, concVars, mapVars, supVars, pollVars, chkVars, probeVars, cfgVars, nextVars, regVars, logVars>>

\* "if s.setupFn != nil": call the setup body inside its recover block.
RunSetup ==
    /\ pc = "setup"
    /\ IF setupFn
       THEN /\ pc' = "body"
            /\ cur' = 0
            /\ started' = Append(started, [pos |-> 0, id |-> 0])
            /\ active' = active \cup {0}
       ELSE /\ pc' = "loop"
            /\ UNCHANGED <<cur, started, active>>
    /\ UNCHANGED <<setupFn, tests, idx, failed, ret, parentDone, doCancelled,
                   processes, procs, sigs, pending, panicked, lastStart,
                   restarts, allocBy, doneStops, printed>>
    /\ UNCHANGED <<assertVars, promVars, concVars, mapVars, supVars, pollVars, chkVars, probeVars, cfgVars, nextVars, regVars, logVars>>

\* One pass through the head of "for _, test := range s.tests".
LoopIter ==
    /\ pc = "loop"
    /\ IF idx > Len(tests) \/ BreakLoop
       THEN /\ pc' = "print"
            /\ UNCHANGED <<cur, ret, started, active>>
       ELSE IF LoopCancelled
       THEN /\ ret' = "false"
            /\ pc' = "done"
            /\ UNCHANGED <<cur, started, active>>
       ELSE /\ pc' = "body"
            /\ cur' = idx
            /\ started' = Append(started, [pos |-> idx, id |-> tests[idx]])
            /\ active' = active \cup {idx}
            /\ UNCHANGED ret
    /\ UNCHANGED <<setupFn, tests, idx, failed, parentDone, doCancelled,
                   processes, procs, sigs, pending, panicked, lastStart,
                   restarts, allocBy, doneStops, printed>>
    /\ UNCHANGED <<assertVars, promVars, concVars, mapVars, supVars, pollVars, chkVars, probeVars, cfgVars, nextVars, regVars, logVars>>

\* The body returns normally.
BodyReturn ==
    /\ pc = "body"
    /\ EndBody(FALSE)
    /\ UNCHANGED <<parentDone, doCancelled, processes, procs, sigs, pending, lastStart, restarts, allocBy, doneStops>>
    /\ UNCHANGED <<assertVars, promVars, concVars, mapVars, supVars, pollVars, chkVars, probeVars, cfgVars, nextVars, regVars, logVars>>

\* The body panics (a failed assertion, or any other panic of its code).
BodyPanic ==
    /\ pc = "body"
    /\ EndBody(TRUE)
    /\ UNCHANGED <<parentDone, doCancelled, processes, procs, sigs, pending, lastStart, restarts, allocBy, doneStops>>
    /\ UNCHANGED <<assertVars, promVars, concVars, mapVars, supVars, pollVars, chkVars, probeVars, cfgVars, nextVars, regVars, logVars>>

\* The terminal PASSED / FAILED line and "return !failed".
PrintResult ==
    /\ pc = "print"
    /\ printed' = Append(printed, ResultLine(failed))
    /\ ret' = (IF failed THEN "false" ELSE "true")
    /\ pc' = "done"
    /\ UNCHANGED <<setupFn, tests, idx, cur, failed, parentDone, doCancelled,
                   processes, procs, sigs, pending, started, active, panicked,
                   lastStart, restarts, allocBy, doneStops>>
    /\ UNCHANGED <<assertVars, promVars, concVars, mapVars, supVars, pollVars, chkVars, probeVars, cfgVars, nextVars, regVars, logVars>>

(***************************************************************************)
(* Harness operations issued by the running body.                          *)
(***************************************************************************)
\* Do.Start
Start(name, args) ==
    /\ InBody
    /\ startWithPort(Harness, name, 0, args, "Start")
    /\ UNCHANGED <<doCancelled, pending, sigs, doneStops>>
    /\ UNCHANGED <<assertVars, promVars, concVars, mapVars, supVars, pollVars, chkVars, cfgVars, nextVars, regVars, logVars>>

\* Do.Stop called by a body; the lookup panics on an unknown name.
StopOp(name, graceful) ==
    /\ InBody
    /\ IF getProcessPanics(Harness, name)
       THEN /\ EndBody(TRUE)
            /\ UNCHANGED <<processes, procs>>
       ELSE /\ processes' = Stop(Harness, name, graceful).processes
            /\ procs' = Stop(Harness, name, graceful).procs
            /\ Continue
    /\ UNCHANGED <<parentDone, doCancelled, pending, lastStart, restarts, allocBy, sigs, doneStops>>
    /\ UNCHANGED <<assertVars, promVars, concVars, mapVars, supVars, pollVars, chkVars, probeVars, cfgVars, nextVars, regVars, logVars>>

\* Do.Kill called by a body.
KillOp(name) ==
    /\ InBody
    /\ IF getProcessPanics(Harness, name)
       THEN /\ EndBody(TRUE)
            /\ UNCHANGED <<processes, procs>>
       ELSE /\ processes' = Kill(Harness, name).processes
            /\ procs' = Kill(Harness, name).procs
            /\ Continue
    /\ UNCHANGED <<parentDone, doCancelled, pending, lastStart, restarts, allocBy, sigs, doneStops>>
    /\ UNCHANGED <<assertVars, promVars, concVars, mapVars, supVars, pollVars, chkVars, probeVars, cfgVars, nextVars, regVars, logVars>>

\* Do.Restart: look the record up, Stop (SIGTERM, and any other signal) or
\* Kill (SIGKILL) it, sleep ProcessRestartDelay, startWithPort with the
\* record's port and args.
Restart(name, sig, graceful) ==
    /\ InBody
    /\ IF getProcessPanics(Harness, name)
       THEN /\ EndBody(TRUE)
            /\ UNCHANGED <<processes, procs, lastStart, restarts, allocBy,
                           parentDone, probe>>
       ELSE LET proc == processes[name]
                h == IF sig = "SIGKILL" THEN Kill(Harness, name)
                                        ELSE Stop(Harness, name, graceful)
            IN  IF proc.pid = 0
                THEN /\ Continue
                     /\ UNCHANGED <<processes, procs, lastStart, restarts, allocBy,
                                    parentDone, probe>>
                ELSE startWithPort(h, name, RestartPort(proc), RestartArgs(proc), "Restart")
    /\ UNCHANGED <<doCancelled, pending, sigs, doneStops>>
    /\ UNCHANGED <<assertVars, promVars, concVars, mapVars, supVars, pollVars, chkVars, cfgVars, nextVars, regVars, logVars>>

(***************************************************************************)
(* Do.Done, deferred by Run.                                               *)
(***************************************************************************)
\* The names Range hands to the callback of Done.
DoneNames_None(m) == {}
DoneNames(m) == DOMAIN m

\* do.cancel(), then Range collects the names in the map.
DoneCancel ==
    /\ pc = "done"
    /\ doCancelled' = TRUE
    /\ pending' = DoneNames(processes)
    /\ pc' = "done_stop"
    /\ UNCHANGED <<setupFn, tests, idx, cur, failed, ret, parentDone,
                   processes, procs, sigs, started, active, panicked,
                   lastStart, restarts, allocBy, doneStops, printed>>
    /\ UNCHANGED <<assertVars, promVars, concVars, mapVars, supVars, pollVars, chkVars, probeVars, cfgVars, nextVars, regVars, logVars>>

\* do.Stop(name) for one of the collected names (map order is arbitrary).
DoneStop(name, graceful) ==
    /\ pc = "done_stop"
    /\ name \in pending
    /\ processes' = Stop(Harness, name, graceful).processes
    /\ procs' = Stop(Harness, name, graceful).procs
    /\ sigs' = [sigs EXCEPT ![processes[name].pid] =
                    @ \o StopSignals(procs[processes[name].pid], graceful)]
    /\ pending' = pending \ {name}
    /\ doneStops' = [doneStops EXCEPT ![name] = @ + 1]
    /\ UNCHANGED <<setupFn, tests, pc, idx, cur, failed, ret, parentDone,
                   doCancelled, started, active, panicked, lastStart,
                   restarts, allocBy, printed>>
    /\ UNCHANGED <<assertVars, promVars, concVars, mapVars, supVars, pollVars, chkVars, probeVars, cfgVars, nextVars, regVars, logVars>>

\* Done returns, and with it Run.
DoneReturn ==
    /\ pc = "done_stop"
    /\ pending = {}
    /\ pc' = "returned"
    /\ UNCHANGED <<setupFn, tests, idx, cur, failed, ret, parentDone,
                   doCancelled, processes, procs, sigs, pending, started,
                   active, panicked, lastStart, restarts, allocBy, doneStops, printed>>
    /\ UNCHANGED <<assertVars, promVars, concVars, mapVars, supVars, pollVars, chkVars, probeVars, cfgVars, nextVars, regVars, logVars>>

(***************************************************************************)
(* The environment.                                                        *)
(***************************************************************************)
\* exec.CommandContext(do.ctx, ...): once the scope is done, the goroutine
\* watching it kills the child (os.Process.Kill), at a moment of its own.
CtxKill(pid) ==
    /\ pc # "exited"
    /\ DoCtxDone
    /\ pid \in 1..Len(procs)
    /\ procs[pid] = "running"
    /\ procs' = [procs EXCEPT ![pid] = "killed"]
    /\ sigs' = [sigs EXCEPT ![pid] = Append(@, [sig |-> "SIGKILL", by |-> "CommandContext"])]
    /\ UNCHANGED <<setupFn, tests, pc, idx, cur, failed, ret, parentDone,
                   doCancelled, processes, pending, started, active,
                   panicked, lastStart, restarts, allocBy, doneStops, printed>>
    /\ UNCHANGED <<assertVars, promVars, concVars, mapVars, supVars, pollVars, chkVars, probeVars, cfgVars, nextVars, regVars, logVars>>

\* The caller of Run cancels the scope it passed.
ParentCancel ==
    /\ pc \notin {"build", "returned", "exited"}
    /\ ~parentDone
    /\ parentDone' = TRUE
    /\ UNCHANGED <<setupFn, tests, pc, idx, cur, failed, ret, doCancelled,
                   processes, procs, sigs, pending, started, active, panicked,
                   lastStart, restarts, allocBy, doneStops, printed>>
    /\ UNCHANGED <<assertVars, promVars, concVars, mapVars, supVars, pollVars, chkVars, probeVars, cfgVars, nextVars, regVars, logVars>>

(***************************************************************************)
(* Specification Spec: a suite is built, then run.                         *)
(***************************************************************************)
\* No qualifier has been called; no panic has left Assert.
NoCall == [op |-> "none", d |-> 0, timing |-> "immediate", timeout |-> 0]
NoPanic == [chan |-> "none", i |-> 0]
NoExec == [how |-> "none", r |-> [code |-> 0, text |-> ""]]

\* No Concurrently call is in progress.
ConcIdle ==
    /\ fns = 0
    /\ spawned = 0
    /\ wpc = <<>>
    /\ wout = <<>>
    /\ wgCount = 0
    /\ panicMu = 0
    /\ panicErr = 0
    /\ recorded = <<>>
    /\ cres = [how |-> "none", v |-> 0]

\* newMap(): an empty map, its lock free, no caller.
MapIdle ==
    /\ mapM = [k \in Names |-> 0]
    /\ writer = 0
    /\ readers = {}
    /\ gpc = <<>>
    /\ completed = [k \in Names |-> 0]

\* One child is running under the name; no call is in progress.
SupInit ==
    /\ child = "Running"
    /\ reaped = FALSE
    /\ sup = [op |-> "none", sig |-> "none", pc |-> "idle"]
    /\ elapsed = 0
    /\ repl = "none"
    /\ calls = 0
    /\ life = <<"Running">>
    /\ sent = <<>>

\* The name was started once, on port 1, and its probe succeeded.
RegIdle ==
    /\ entry = <<[gen |-> 1, realPort |-> 1, how |-> "ready"]>>
    /\ spawning = <<>>
    /\ lookups = <<>>

\* The record's log file is open and nobody is stopping the process.
NoCloser == [op |-> "none", pc |-> "idle", raced |-> FALSE]

LogIdle ==
    /\ logFile = TRUE
    /\ closes = 0
    /\ closer = [g \in 1..MaxFns |-> NoCloser]

\* No challenge directory is in use.
NextIdle ==
    /\ stageCount = 1
    /\ yaml = [current |-> "s1", completed |-> <<>>]
    /\ invocations = <<>>

\* DefaultConfig(); durations in milliseconds.
DefaultConfig ==
    [Command                |-> "./run.sh",
     WorkingDir             |-> ".lsfr",
     ProcessStartTimeout    |-> 10000,
     ProcessShutdownTimeout |-> 10000,
     ProcessRestartDelay    |-> 1000,
     DefaultRetryTimeout    |-> 5000,
     RetryPollInterval      |-> 100,
     ExecuteTimeout         |-> 5000]

\* New(): the suite has no config; Run has not been entered.
CfgIdle ==
    /\ userCfg = DefaultConfig
    /\ sconfig = <<>>
    /\ effective = <<>>

\* No process has been probed.
ProbeIdle == probe = "none"

\* gjson.Result of a path that names nothing, or names null: Type Null,
\* String() "", Value() nil (reflect.Value.Len panics: len -1).
NullResult == [type |-> "Null", str |-> <<>>, len |-> -1]

\* IsNull[string]()
IsNull == [op |-> "isNull", values |-> <<>>, length |-> 0, checker |-> <<>>]

\* No checker is being called.
ChkIdle ==
    /\ chk = IsNull
    /\ actualVal = <<>>
    /\ jsonBody = [p \in {"role"} |-> NullResult]
    /\ jsonPath = ""
    /\ verdicts = <<>>

\* The scope has not been cancelled; no Assert call has ended.
NoCancel == [t |-> -1, n |-> 0]
NoFirst == [pret |-> "none", settled |-> FALSE]

PollIdle ==
    /\ cancelled = NoCancel
    /\ settled = 0
    /\ firstPoll = NoFirst

\* No Assert call is in progress.
AssertIdle ==
    /\ kind = "http"
    /\ timing = "immediate"
    /\ timeout = 0
    /\ pollInterval = 1
    /\ statusCheckers = <<>>
    /\ bodyCheckers = <<>>
    /\ stable = TRUE
    /\ apc = "idle"
    /\ now = 0
    /\ deadline = 0
    /\ wake = 0
    /\ ctxDone = FALSE
    /\ obs = [code |-> 0, text |-> ""]
    /\ pret = "none"
    /\ why = "none"
    /\ evals = <<>>
    /\ evalTimes = <<>>
    /\ t0 = 0
    /\ cancelAt = "none"
    /\ outcome = "none"
    /\ jsonCheckers = <<>>
    /\ lastCall = NoCall
    /\ lastExec = NoExec
    /\ raisedBy = NoPanic

\* attest.New(): an empty suite; no harness yet.
RunInit ==
    /\ setupFn = FALSE
    /\ tests = <<>>
    /\ pc = "build"
    /\ idx = 1
    /\ cur = 0
    /\ failed = FALSE
    /\ ret = "none"
    /\ parentDone = FALSE
    /\ doCancelled = FALSE
    /\ processes = <<>>
    /\ procs = <<>>
    /\ pending = {}
    /\ started = <<>>
    /\ active = {}
    /\ panicked = {}
    /\ lastStart = [n \in Names |-> [port |-> 0, args |-> "none"]]
    /\ restarts = [n \in Names |-> 0]
    /\ allocBy = {}
    /\ sigs = [pid \in 1..MaxPids |-> <<>>]
    /\ doneStops = [n \in Names |-> 0]
    /\ printed = <<>>

Init == RunInit /\ AssertIdle /\ ConcIdle /\ MapIdle /\ SupInit /\ PollIdle /\ ChkIdle /\ ProbeIdle /\ CfgIdle /\ NextIdle /\ RegIdle /\ LogIdle

\* The bodies of Spec issue Start, the one operation that spawns, panics or
\* exits the program; any other panic of a body is BodyPanic.
Next ==
    \/ Setup
    \/ Test
    \/ Run
    \/ RunSetup
    \/ LoopIter
    \/ BodyReturn
    \/ BodyPanic
    \/ PrintResult
    \/ \E name \in Names, args \in ArgLists : Start(name, args)
    \/ DoneCancel
    \/ \E name \in Names, graceful \in BOOLEAN : DoneStop(name, graceful)
    \/ DoneReturn
    \/ \E pid \in 1..MaxPids : CtxKill(pid)
    \/ ParentCancel

Spec == Init /\ [][Next]_vars

(***************************************************************************)
(* Specification SpecDo: the harness of one run under every sequence of    *)
(* supervisor calls.  The suite has one test and no setup: what the        *)
(* harness sees of any run is a sequence of calls from the bodies, ended   *)
(* by a return, a panic or a cancellation, and then Done.                  *)
(***************************************************************************)
DoInit ==
    /\ setupFn = FALSE
    /\ tests = <<1>>
    /\ pc = "setup"
    /\ idx = 1
    /\ cur = 0
    /\ failed = FALSE
    /\ ret = "none"
    /\ parentDone = FALSE
    /\ doCancelled = FALSE
    /\ processes = <<>>
    /\ procs = <<>>
    /\ pending = {}
    /\ started = <<>>
    /\ active = {}
    /\ panicked = {}
    /\ lastStart = [n \in Names |-> [port |-> 0, args |-> "none"]]
    /\ restarts = [n \in Names |-> 0]
    /\ allocBy = {}
    /\ sigs = [pid \in 1..MaxPids |-> <<>>]
    /\ doneStops = [n \in Names |-> 0]
    /\ printed = <<>>
    /\ AssertIdle
    /\ ConcIdle
    /\ MapIdle
    /\ SupInit
    /\ PollIdle
    /\ ChkIdle
    /\ ProbeIdle
    /\ CfgIdle
    /\ NextIdle
    /\ RegIdle
    /\ LogIdle

NextDo ==
    \/ RunSetup
    \/ LoopIter
    \/ BodyReturn
    \/ BodyPanic
    \/ PrintResult
    \/ \E name \in Names, args \in ArgLists : Start(name, args)
    \/ \E name \in Names, graceful \in BOOLEAN : StopOp(name, graceful)
    \/ \E name \in Names : KillOp(name)
    \/ \E name \in Names, sig \in {"SIGTERM", "SIGKILL"}, graceful \in BOOLEAN :
          Restart(name, sig, graceful)
    \/ DoneCancel
    \/ \E name \in Names, graceful \in BOOLEAN : DoneStop(name, graceful)
    \/ DoneReturn
    \/ \E pid \in 1..MaxPids : CtxKill(pid)
    \/ ParentCancel

SpecDo == DoInit /\ [][NextDo]_vars

(***************************************************************************)
(* Specification SpecCancelled: the same run from the moment its scope was *)
(* cancelled while the test body runs, with no child or with the child     *)
(* that one Start of "n1" left (cancelled after or during its probe).      *)
(***************************************************************************)
CancelledInit ==
    /\ setupFn = FALSE
    /\ tests = <<1>>
    /\ pc = "body"
    /\ idx = 1
    /\ cur = 1
    /\ failed = FALSE
    /\ ret = "none"
    /\ parentDone = TRUE
    /\ doCancelled = FALSE
    /\ \/ /\ processes = <<>>
          /\ procs = <<>>
          /\ lastStart = [n \in Names |-> [port |-> 0, args |-> "none"]]
          /\ allocBy = {}
          /\ probe = "none"
       \/ \E p \in Ports, args \in ArgLists :
             /\ processes = MapSet(<<>>, "n1",
                    [pid |-> 1, realPort |-> p, args |-> args, logOpen |-> TRUE])
             /\ procs = <<"running">>
             /\ lastStart = [n \in Names |->
                    IF n = "n1" THEN [port |-> p, args |-> args]
                    ELSE [port |-> 0, args |-> "none"]]
             /\ allocBy = {"Start"}
             /\ probe \in {"ready", "cancelled"}
    /\ pending = {}
    /\ started = <<[pos |-> 1, id |-> 1]>>
    /\ active = {1}
    /\ panicked = {}
    /\ restarts = [n \in Names |-> 0]
    /\ sigs = [pid \in 1..MaxPids |-> <<>>]
    /\ doneStops = [n \in Names |-> 0]
    /\ printed = <<>>
    /\ AssertIdle
    /\ ConcIdle
    /\ MapIdle
    /\ SupInit
    /\ PollIdle
    /\ ChkIdle
    /\ CfgIdle
    /\ NextIdle
    /\ RegIdle
    /\ LogIdle

NextCancelled ==
    \/ LoopIter
    \/ BodyReturn
    \/ BodyPanic
    \/ PrintResult
    \/ \E name \in Names, args \in ArgLists : Start(name, args)
    \/ \E name \in Names, graceful \in BOOLEAN : StopOp(name, graceful)
    \/ \E name \in Names : KillOp(name)
    \/ \E name \in Names, sig \in {"SIGTERM", "SIGKILL"}, graceful \in BOOLEAN :
          Restart(name, sig, graceful)
    \/ DoneCancel
    \/ \E name \in Names, graceful \in BOOLEAN : DoneStop(name, graceful)
    \/ DoneReturn
    \/ \E pid \in 1..MaxPids : CtxKill(pid)

SpecCancelled == CancelledInit /\ [][NextCancelled]_vars

(***************************************************************************)
(* Checkers and observations.                                              *)
(***************************************************************************)
\* isChecker.Check: a checker Is(expected) is modelled by its expected value.
Check(expected, actual) == actual = expected

\* checkAll: every checker of the channel accepts the value.
checkAll(value, checkers) ==
    \A i \in 1..Len(checkers) : Check(checkers[i], value)

\* gjson.Get on the bodies of the model: the body "ok" stands for the
\* document {"role": "leader"}; the other bodies are not documents, and a
\* path that names nothing yields Null.
gjsonGet(json, path) == IF json = "ok" /\ path = "role" THEN "leader" ELSE "null"

\* JSONFieldChecker.Check, for a checker Is(expected) on the field at path.
JSONCheck(c, actual) ==
    LET result == gjsonGet(actual, c.path) IN
    IF result = "null" THEN FALSE ELSE Check(c.expected, result)

\* checkAllJSON: every field checker accepts the body.
checkAllJSON(json, checkers) ==
    \A i \in 1..Len(checkers) : JSONCheck(checkers[i], json)

\* The conjunction execute returns on a recorded observation.
Satisfies(o) ==
    /\ checkAll(o.code, statusCheckers)
    /\ checkAll(o.text, bodyCheckers)
    /\ checkAllJSON(o.text, jsonCheckers)

\* check(): checkAll with a panicking onFail, channel after channel.  The
\* value is the checker whose message the panic carries, NoPanic when every
\* checker accepts.
check_BodyFirst(o) ==
    LET st == [i \in 1..Len(statusCheckers) |-> Check(statusCheckers[i], o.code)]
        bd == [i \in 1..Len(bodyCheckers) |-> Check(bodyCheckers[i], o.text)]
        fails(r) == \E i \in 1..Len(r) : ~r[i]
        first(r) == CHOOSE i \in 1..Len(r) : ~r[i] /\ \A j \in 1..(i - 1) : r[j]
    IN  IF fails(bd) THEN [chan |-> "body", i |-> first(bd)]
        ELSE IF fails(st) THEN [chan |-> "status", i |-> first(st)]
        ELSE NoPanic
check(o) ==
    LET st == [i \in 1..Len(statusCheckers) |-> Check(statusCheckers[i], o.code)]
        bd == [i \in 1..Len(bodyCheckers) |-> Check(bodyCheckers[i], o.text)]
        js == [i \in 1..Len(jsonCheckers) |-> JSONCheck(jsonCheckers[i], o.text)]
        fails(r) == \E i \in 1..Len(r) : ~r[i]
        first(r) == CHOOSE i \in 1..Len(r) : ~r[i] /\ \A j \in 1..(i - 1) : r[j]
    IN  IF fails(st) THEN [chan |-> "status", i |-> first(st)]
        ELSE IF fails(bd) THEN [chan |-> "body", i |-> first(bd)]
        ELSE IF fails(js) THEN [chan |-> "json", i |-> first(js)]
        ELSE NoPanic

\* The zero values of responseStatus / exitCode and responseBody / output.
ZeroObs == [code |-> 0, text |-> ""]

\* What one execution can observe of the system under test: an HTTP status
\* and body, or an exit code with stdout (code 0) or stderr (code 1).
NaturalObs(k) ==
    IF k = "http"
    THEN [code : {200, 503}, text : {"ok", "bad"}]
    ELSE [code : {0, 1}, text : {"ok", "bad"}]

\* CLIAssert.execute: what is recorded when the scope was cancelled, and
\* when the execute timeout passed.
CancelledObs == [code |-> -1, text |-> "was cancelled"]
TimedOutObs == [code |-> -1, text |-> "timed out"]

\* Whether execute panics on an execution that ended as how says: "exit" (a
\* response, or a command that ran to its exit), "timeout", "cancel" or
\* "error".  HTTPAssert.execute panics on every error of client.Do;
\* CLIAssert.execute only on an error that is neither a timeout, nor a
\* cancellation, nor an exit status.
Raises_OnlyError(k, how) == how = "error"
Raises(k, how) == how = "error" \/ (k = "http" /\ how # "exit")

\* What a command that runs to its exit hands to cmd.Output: the exit code
\* and the two streams.
Exits == [code : {0, 1}, stdout : {"ok", "bad"}, stderr : {"ok", "bad"}]

\* What execute of an assertion of kind k records of an execution that
\* ended as how says, r being the response or the command's exit.
Recorded_KeepOutput(k, how, r) ==
    CASE how = "timeout" -> [code |-> -1, text |-> obs.text]
      [] how = "cancel" -> [code |-> -1, text |-> obs.text]
      [] k = "http" -> r
      [] OTHER -> [code |-> r.code, text |-> IF r.code = 0 THEN r.stdout ELSE r.stderr]
Recorded(k, how, r) ==
    CASE how = "timeout" -> TimedOutObs
      [] how = "cancel" -> CancelledObs
      [] k = "http" -> r
      [] OTHER -> [code |-> r.code, text |-> IF r.code = 0 THEN r.stdout ELSE r.stderr]

(***************************************************************************)
(* The pollers eventually and consistently.                                *)
(***************************************************************************)
\* "time.Now().Before(deadline)", the loop condition of both pollers.
Before_OrAt(t, d) == t <= d
Before(t, d) == t < d

\* time.After(pollInterval), armed at clock n.
TimerFires_AtOnce(n, p) == n
TimerFires(n, p) == n + p

\* "case <-ctx.Done(): return false", in both pollers.
PollerOnCancel(mode) == "false"

\* Whether "case <-ctx.Done()" of the select is ready.
CtxCase_Absent(done) == FALSE
CtxCase(done) == done

\* The execution in progress began when every response of the system had
\* become acceptable.
Settled == stable /\ Len(evalTimes) > settled

\* The return after the loop: false for eventually, true for consistently.
PollerOnDeadline_False(mode) == "false"
PollerOnDeadline(mode) == IF mode = "eventually" THEN "false" ELSE "true"

\* Whether the poller returns on an evaluation that yielded b:
\* "if condition() { return true }" and "if !condition() { return false }".
PollerStops_PastMismatch(mode, b) == mode = "eventually" /\ b
PollerStops_OnTrue(mode, b) == b
PollerStops(mode, b) == IF mode = "eventually" THEN b ELSE ~b

\* The value of that return.
PollerOnStop(mode) == IF mode = "eventually" THEN "true" ELSE "false"

(***************************************************************************)
(* One Assert call.                                                        *)
(***************************************************************************)
\* execute returned b to its caller: Assert itself in Immediate mode, the
\* poller otherwise.
AfterEval(b) ==
    /\ evals' = Append(evals, b)
    /\ IF timing = "immediate"
       THEN /\ apc' = "check"
            /\ UNCHANGED <<pret, why>>
       ELSE IF PollerStops(timing, b)
       THEN /\ pret' = PollerOnStop(timing)
            /\ why' = "cond"
            /\ apc' = "check"
       ELSE /\ apc' = "loop"
            /\ UNCHANGED <<pret, why>>

\* execute panics; the panic leaves the poller and Assert.
Raise ==
    /\ outcome' = "raised"
    /\ raisedBy' = [chan |-> "execute", i |-> 0]
    /\ apc' = "done"
    /\ UNCHANGED <<evals, pret, why, obs>>

\* The end of one execution inside execute.
ExecEnd(how, r) ==
    /\ lastExec' = [how |-> how, r |-> r]
    /\ IF Raises(kind, how)
       THEN Raise
       ELSE /\ obs' = Recorded(kind, how, r)
            /\ AfterEval(Satisfies(Recorded(kind, how, r)))
            /\ UNCHANGED <<outcome, raisedBy>>

\* The switch of Assert on the promise's timing mode.
AssertBranch_Poll(mode) == "poll"
AssertBranch(mode) ==
    IF mode \in {"eventually", "consistently"} THEN "poll" ELSE "execute"

\* Assert: set help, branch on the promise's timing mode.
AssertEnter ==
    /\ apc = "assert"
    /\ IF AssertBranch(timing) = "execute"
       THEN /\ apc' = "call"
            /\ evalTimes' = Append(evalTimes, now)
            /\ UNCHANGED <<deadline, t0>>
       ELSE /\ deadline' = now + timeout
            /\ t0' = now
            /\ apc' = "loop"
            /\ UNCHANGED evalTimes
    /\ UNCHANGED <<kind, timing, timeout, pollInterval, statusCheckers,
                   bodyCheckers, stable, now, wake, ctxDone, obs, pret, why,
                   evals, cancelAt, outcome>>
    /\ UNCHANGED <<runVars, promVars, concVars, mapVars, supVars, pollVars, chkVars, probeVars, cfgVars, nextVars, regVars, logVars>>

\* "for time.Now().Before(deadline)": enter the select, or leave the loop.
PollLoop ==
    /\ apc = "loop"
    /\ IF Before(now, deadline)
       THEN /\ apc' = "select"
            /\ wake' = TimerFires(now, pollInterval)
            /\ UNCHANGED <<pret, why>>
       ELSE /\ pret' = PollerOnDeadline(timing)
            /\ why' = "deadline"
            /\ apc' = "check"
            /\ UNCHANGED wake
    /\ UNCHANGED <<kind, timing, timeout, pollInterval, statusCheckers,
                   bodyCheckers, stable, now, deadline, ctxDone, obs, evals,
                   evalTimes, t0, cancelAt, outcome>>
    /\ UNCHANGED <<runVars, promVars, concVars, mapVars, supVars, pollVars, chkVars, probeVars, cfgVars, nextVars, regVars, logVars>>

\* The select takes "case <-ctx.Done()".
SelectCancel ==
    /\ apc = "select"
    /\ CtxCase(ctxDone)
    /\ pret' = PollerOnCancel(timing)
    /\ why' = "cancel"
    /\ apc' = "check"
    /\ UNCHANGED <<kind, timing, timeout, pollInterval, statusCheckers,
                   bodyCheckers, stable, now, deadline, wake, ctxDone, obs,
                   evals, evalTimes, t0, cancelAt, outcome>>
    /\ UNCHANGED <<runVars, promVars, concVars, mapVars, supVars, pollVars, chkVars, probeVars, cfgVars, nextVars, regVars, logVars>>

\* The select takes "case <-time.After(pollInterval)" and calls condition.
SelectTimer ==
    /\ apc = "select"
    /\ now >= wake
    /\ apc' = "call"
    /\ evalTimes' = Append(evalTimes, now)
    /\ UNCHANGED <<kind, timing, timeout, pollInterval, statusCheckers,
                   bodyCheckers, stable, now, deadline, wake, ctxDone, obs,
                   pret, why, evals, t0, cancelAt, outcome>>
    /\ UNCHANGED <<runVars, promVars, concVars, mapVars, supVars, pollVars, chkVars, probeVars, cfgVars, nextVars, regVars, logVars>>

\* execute issues the request or spawns the command.  With the scope done
\* already, client.Do fails (a panic) and cmd.Output fails with
\* ctx.Err() = Canceled (recorded as exit code -1).
ExecBegin ==
    /\ apc = "call"
    /\ IF ~ctxDone
       THEN /\ apc' = "inflight"
            /\ UNCHANGED <<obs, pret, why, evals, outcome, lastExec, raisedBy>>
       ELSE ExecEnd("cancel", ZeroObs)
    /\ UNCHANGED <<kind, timing, timeout, pollInterval, statusCheckers,
                   bodyCheckers, stable, now, deadline, wake, ctxDone,
                   evalTimes, t0, cancelAt>>
    /\ UNCHANGED <<runVars, jsonCheckers, lastCall, concVars, mapVars, supVars, pollVars, chkVars, probeVars, cfgVars, nextVars, regVars, logVars>>

\* The response arrives, or the command exits: the observation is recorded
\* and the checkers are evaluated.
ExecRespond(r) ==
    /\ apc = "inflight"
    /\ Settled => Satisfies(Recorded(kind, "exit", r))
    /\ ExecEnd("exit", r)
    /\ UNCHANGED <<kind, timing, timeout, pollInterval, statusCheckers,
                   bodyCheckers, stable, now, deadline, wake, ctxDone,
                   evalTimes, t0, cancelAt>>
    /\ UNCHANGED <<runVars, jsonCheckers, lastCall, concVars, mapVars, supVars, pollVars, chkVars, probeVars, cfgVars, nextVars, regVars, logVars>>

\* The scope is cancelled while the operation is in flight: the request is
\* aborted (a panic), the command is killed (exit code -1).
ExecAbort ==
    /\ apc = "inflight"
    /\ ctxDone
    /\ ExecEnd("cancel", ZeroObs)
    /\ UNCHANGED <<kind, timing, timeout, pollInterval, statusCheckers,
                   bodyCheckers, stable, now, deadline, wake, ctxDone,
                   evalTimes, t0, cancelAt>>
    /\ UNCHANGED <<runVars, jsonCheckers, lastCall, concVars, mapVars, supVars, pollVars, chkVars, probeVars, cfgVars, nextVars, regVars, logVars>>

\* ExecuteTimeout passes first: the client gives up (a panic), the command
\* is killed (exit code -1).
ExecTimeout ==
    /\ apc = "inflight"
    /\ ~Settled
    /\ ExecEnd("timeout", ZeroObs)
    /\ UNCHANGED <<kind, timing, timeout, pollInterval, statusCheckers,
                   bodyCheckers, stable, now, deadline, wake, ctxDone,
                   evalTimes, t0, cancelAt>>
    /\ UNCHANGED <<runVars, jsonCheckers, lastCall, concVars, mapVars, supVars, pollVars, chkVars, probeVars, cfgVars, nextVars, regVars, logVars>>

\* A transport error, or a command that cannot be run: execute panics.
ExecError ==
    /\ apc = "inflight"
    /\ ~Settled
    /\ ExecEnd("error", ZeroObs)
    /\ UNCHANGED <<kind, timing, timeout, pollInterval, statusCheckers,
                   bodyCheckers, stable, now, deadline, wake, ctxDone,
                   evalTimes, t0, cancelAt>>
    /\ UNCHANGED <<runVars, jsonCheckers, lastCall, concVars, mapVars, supVars, pollVars, chkVars, probeVars, cfgVars, nextVars, regVars, logVars>>

\* a.check(): panic on the first checker that rejects the recorded
\* observation, return otherwise.
CheckStep ==
    /\ apc = "check"
    /\ raisedBy' = check(obs)
    /\ outcome' = (IF check(obs) = NoPanic THEN "returned" ELSE "raised")
    /\ apc' = "done"
    /\ UNCHANGED <<kind, timing, timeout, pollInterval, statusCheckers,
                   bodyCheckers, stable, now, deadline, wake, ctxDone, obs,
                   pret, why, evals, evalTimes, t0, cancelAt>>
    /\ UNCHANGED <<runVars, jsonCheckers, lastCall, lastExec, concVars, mapVars, supVars, pollVars, chkVars, probeVars, cfgVars, nextVars, regVars, logVars>>

\* Time passes while the call waits: in the select with no case ready, or
\* for an operation in flight that the scope has not aborted.
Tick ==
    /\ \/ apc = "select" /\ ~CtxCase(ctxDone) /\ now < wake
       \/ apc = "inflight" /\ ~ctxDone
    /\ now < MaxTime
    /\ now' = now + 1
    /\ UNCHANGED <<kind, timing, timeout, pollInterval, statusCheckers,
                   bodyCheckers, stable, apc, deadline, wake, ctxDone, obs,
                   pret, why, evals, evalTimes, t0, cancelAt, outcome>>
    /\ UNCHANGED <<runVars, promVars, concVars, mapVars, supVars, pollVars, chkVars, probeVars, cfgVars, nextVars, regVars, logVars>>

\* The promise's scope is cancelled (do.Cancel, Done, or the parent scope).
Cancel ==
    /\ apc # "done"
    /\ ~ctxDone
    /\ ctxDone' = TRUE
    /\ cancelAt' = apc
    /\ cancelled' = [t |-> now, n |-> Len(evalTimes)]
    /\ UNCHANGED <<kind, timing, timeout, pollInterval, statusCheckers,
                   bodyCheckers, stable, apc, now, deadline, wake, obs, pret,
                   why, evals, evalTimes, t0, outcome, settled, firstPoll>>
    /\ UNCHANGED <<runVars, promVars, concVars, mapVars, supVars, chkVars, probeVars, cfgVars, nextVars, regVars, logVars>>

(***************************************************************************)
(* Specification SpecAssert: one Assert call of an HTTP or CLI assertion,  *)
(* for every timing mode, timeout, poll interval and set of checkers.      *)
(***************************************************************************)
\* The code the checkers of the model expect: 200 OK, or exit code 0.
OkCode(k) == IF k = "http" THEN 200 ELSE 0

AssertInit ==
    /\ kind \in {"http", "cli"}
    /\ timing \in {"immediate", "eventually", "consistently"}
    /\ timeout \in 0..MaxTimeout
    /\ pollInterval \in 1..MaxPoll
    /\ statusCheckers \in {<<>>, <<OkCode(kind)>>}
    /\ bodyCheckers \in {<<>>, <<"ok">>}
    /\ Len(statusCheckers) + Len(bodyCheckers) >= 1
    /\ stable \in BOOLEAN
    /\ apc = "assert"
    /\ now = 0
    /\ deadline = 0
    /\ wake = 0
    /\ ctxDone = FALSE
    /\ obs = ZeroObs
    /\ pret = "none"
    /\ why = "none"
    /\ evals = <<>>
    /\ evalTimes = <<>>
    /\ t0 = 0
    /\ cancelAt = "none"
    /\ outcome = "none"
    /\ jsonCheckers = <<>>
    /\ lastCall = NoCall
    /\ lastExec = NoExec
    /\ raisedBy = NoPanic
    /\ RunInit
    /\ ConcIdle
    /\ MapIdle
    /\ SupInit
    /\ PollIdle
    /\ ChkIdle
    /\ ProbeIdle
    /\ CfgIdle
    /\ NextIdle
    /\ RegIdle
    /\ LogIdle

NextAssert ==
    \/ AssertEnter
    \/ PollLoop
    \/ SelectCancel
    \/ SelectTimer
    \/ ExecBegin
    \/ \E r \in (IF kind = "http" THEN NaturalObs(kind) ELSE Exits) : ExecRespond(r)
    \/ ExecAbort
    \/ ExecTimeout
    \/ ExecError
    \/ CheckStep
    \/ Tick
    \/ Cancel

SpecAssert == AssertInit /\ [][NextAssert]_vars

(***************************************************************************)
(* Specification SpecWindow: the pollers called with any timeout, zero and *)
(* negative included.                                                      *)
(***************************************************************************)
WindowInit ==
    /\ kind \in {"http", "cli"}
    /\ timing \in {"eventually", "consistently"}
    /\ timeout \in (-1)..MaxTimeout
    /\ pollInterval \in 1..MaxPoll
    /\ statusCheckers \in {<<>>, <<OkCode(kind)>>}
    /\ bodyCheckers \in {<<>>, <<"ok">>}
    /\ Len(statusCheckers) + Len(bodyCheckers) >= 1
    /\ stable \in BOOLEAN
    /\ apc = "assert"
    /\ now = 0
    /\ deadline = 0
    /\ wake = 0
    /\ ctxDone = FALSE
    /\ obs = ZeroObs
    /\ pret = "none"
    /\ why = "none"
    /\ evals = <<>>
    /\ evalTimes = <<>>
    /\ t0 = 0
    /\ cancelAt = "none"
    /\ outcome = "none"
    /\ jsonCheckers = <<>>
    /\ lastCall = NoCall
    /\ lastExec = NoExec
    /\ raisedBy = NoPanic
    /\ RunInit
    /\ ConcIdle
    /\ MapIdle
    /\ SupInit
    /\ PollIdle
    /\ ChkIdle
    /\ ProbeIdle
    /\ CfgIdle
    /\ NextIdle
    /\ RegIdle
    /\ LogIdle

SpecWindow == WindowInit /\ [][NextAssert]_vars

(***************************************************************************)
(* Two polls over one condition: eventually, then consistently.  The       *)
(* system under test starts out unsettled and may settle at any moment;    *)
(* from then on every operation begun gets an acceptable response.         *)
(***************************************************************************)
\* The condition becomes true, and stays true.
Settle ==
    /\ ~stable
    /\ stable' = TRUE
    /\ settled' = Len(evalTimes)
    /\ UNCHANGED <<kind, timing, timeout, pollInterval, statusCheckers,
                   bodyCheckers, apc, now, deadline, wake, ctxDone, obs, pret,
                   why, evals, evalTimes, t0, cancelAt, outcome>>
    /\ UNCHANGED <<cancelled, firstPoll>>
    /\ UNCHANGED <<runVars, promVars, concVars, mapVars, supVars, chkVars, probeVars, cfgVars, nextVars, regVars, logVars>>

\* The first Assert returned; the test body calls Assert again, on the same
\* operation and checkers, with the Consistently qualifier.
Again ==
    /\ apc = "done"
    /\ outcome = "returned"
    /\ firstPoll = NoFirst
    /\ firstPoll' = [pret |-> pret, settled |-> Settled]
    /\ settled' = (IF stable THEN 0 ELSE settled)
    /\ timing' = "consistently"
    /\ apc' = "assert"
    /\ pret' = "none"
    /\ why' = "none"
    /\ evals' = <<>>
    /\ evalTimes' = <<>>
    /\ outcome' = "none"
    /\ lastExec' = NoExec
    /\ UNCHANGED <<kind, timeout, pollInterval, statusCheckers, bodyCheckers,
                   stable, now, deadline, wake, ctxDone, obs, t0, cancelAt>>
    /\ UNCHANGED <<jsonCheckers, lastCall, raisedBy, cancelled>>
    /\ UNCHANGED <<runVars, concVars, mapVars, supVars, chkVars, probeVars, cfgVars, nextVars, regVars, logVars>>

PollInit ==
    /\ kind \in {"http", "cli"}
    /\ timing = "eventually"
    /\ timeout \in 0..MaxTimeout
    /\ pollInterval \in 1..MaxPoll
    /\ statusCheckers = <<OkCode(kind)>>
    /\ bodyCheckers = <<>>
    /\ stable = FALSE
    /\ apc = "assert"
    /\ now = 0
    /\ deadline = 0
    /\ wake = 0
    /\ ctxDone = FALSE
    /\ obs = ZeroObs
    /\ pret = "none"
    /\ why = "none"
    /\ evals = <<>>
    /\ evalTimes = <<>>
    /\ t0 = 0
    /\ cancelAt = "none"
    /\ outcome = "none"
    /\ jsonCheckers = <<>>
    /\ lastCall = NoCall
    /\ lastExec = NoExec
    /\ raisedBy = NoPanic
    /\ RunInit
    /\ ConcIdle
    /\ MapIdle
    /\ SupInit
    /\ PollIdle
    /\ ChkIdle
    /\ ProbeIdle
    /\ CfgIdle
    /\ NextIdle
    /\ RegIdle
    /\ LogIdle

NextPoll ==
    \/ NextAssert
    \/ Settle
    \/ Again

SpecPoll == PollInit /\ [][NextPoll]_vars

(***************************************************************************)
(* The promise: timing qualifiers, Returns / T, and the matchers.          *)
(***************************************************************************)
\* const defaultTimeout = 5 * time.Second, in ticks of one second.
defaultTimeout == 5

\* Largest number of checkers added to one assertion.
MaxCheckers == 3

\* PromiseBase.setEventually .. setFor on the promise b = [timing, timeout];
\* panic tells whether the call panicked.
setEventually(b) ==
    [timing |-> "eventually", timeout |-> defaultTimeout, panic |-> FALSE]

setWithin_Unguarded(b, d) == [timing |-> b.timing, timeout |-> d, panic |-> FALSE]
setWithin(b, d) ==
    IF b.timing # "eventually"
    THEN [timing |-> b.timing, timeout |-> b.timeout, panic |-> TRUE]
    ELSE [timing |-> b.timing, timeout |-> d, panic |-> FALSE]

setConsistently_Toggle(b) ==
    IF b.timing = "immediate"
    THEN [timing |-> "consistently", timeout |-> defaultTimeout, panic |-> FALSE]
    ELSE [timing |-> "immediate", timeout |-> defaultTimeout, panic |-> FALSE]
setConsistently(b) ==
    [timing |-> "consistently", timeout |-> defaultTimeout, panic |-> FALSE]

setFor(b, d) ==
    IF b.timing # "consistently"
    THEN [timing |-> b.timing, timeout |-> b.timeout, panic |-> TRUE]
    ELSE [timing |-> b.timing, timeout |-> d, panic |-> FALSE]

\* One qualifier call on the promise: Eventually(), Within(d),
\* Consistently() or For(d).  A panic leaves the chain: no Assert follows.
Qualify(op, d) ==
    /\ apc = "promise"
    /\ LET b == [timing |-> timing, timeout |-> timeout]
           r == CASE op = "Eventually" -> setEventually(b)
                  [] op = "Within" -> setWithin(b, d)
                  [] op = "Consistently" -> setConsistently(b)
                  [] op = "For" -> setFor(b, d)
       IN  /\ timing' = r.timing
           /\ timeout' = r.timeout
           /\ lastCall' = [op |-> op, d |-> d, timing |-> timing, timeout |-> timeout]
           /\ IF r.panic
              THEN /\ apc' = "done"
                   /\ outcome' = "raised"
                   /\ raisedBy' = [chan |-> "misuse", i |-> 0]
              ELSE UNCHANGED <<apc, outcome, raisedBy>>
    /\ UNCHANGED <<kind, pollInterval, statusCheckers, bodyCheckers, stable,
                   now, deadline, wake, ctxDone, obs, pret, why, evals,
                   evalTimes, t0, cancelAt, jsonCheckers, lastExec>>
    /\ UNCHANGED <<runVars, concVars, mapVars, supVars, pollVars, chkVars, probeVars, cfgVars, nextVars, regVars, logVars>>

\* Returns() / T(): the assertion is created from the promise.
Returns ==
    /\ apc = "promise"
    /\ apc' = "assert"
    /\ UNCHANGED <<kind, timing, timeout, pollInterval, statusCheckers,
                   bodyCheckers, stable, now, deadline, wake, ctxDone, obs,
                   pret, why, evals, evalTimes, t0, cancelAt, outcome>>
    /\ UNCHANGED <<runVars, promVars, concVars, mapVars, supVars, pollVars, chkVars, probeVars, cfgVars, nextVars, regVars, logVars>>

\* Status / ExitCode, Body / Output and JSON append a checker to their
\* channel; an assertion of the model takes at most cap checkers.  CLIAssert
\* has no JSON method.
Matcher(chan, c, cap) ==
    /\ apc = "assert"
    /\ Len(statusCheckers) + Len(bodyCheckers) + Len(jsonCheckers) < cap
    /\ chan = "json" => kind = "http"
    /\ statusCheckers' = (IF chan = "status" THEN Append(statusCheckers, c) ELSE statusCheckers)
    /\ bodyCheckers' = (IF chan = "body" THEN Append(bodyCheckers, c) ELSE bodyCheckers)
    /\ jsonCheckers' = (IF chan = "json" THEN Append(jsonCheckers, c) ELSE jsonCheckers)
    /\ UNCHANGED <<kind, timing, timeout, pollInterval, stable, apc, now,
                   deadline, wake, ctxDone, obs, pret, why, evals, evalTimes,
                   t0, cancelAt, outcome, lastCall, lastExec, raisedBy>>
    /\ UNCHANGED <<runVars, concVars, mapVars, supVars, pollVars, chkVars, probeVars, cfgVars, nextVars, regVars, logVars>>

(***************************************************************************)
(* Specification SpecPromise: Do.HTTP or Do.Exec has built a promise; the  *)
(* chain calls qualifiers, Returns, a status matcher, and Assert.          *)
(***************************************************************************)
\* The durations handed to Within and For.
Durations == {1, MaxTimeout}

PromiseInit ==
    /\ kind \in {"http", "cli"}
    /\ timing = "immediate"
    /\ timeout = 0
    /\ pollInterval = 1
    /\ statusCheckers = <<>>
    /\ bodyCheckers = <<>>
    /\ stable \in BOOLEAN
    /\ apc = "promise"
    /\ now = 0
    /\ deadline = 0
    /\ wake = 0
    /\ ctxDone = FALSE
    /\ obs = ZeroObs
    /\ pret = "none"
    /\ why = "none"
    /\ evals = <<>>
    /\ evalTimes = <<>>
    /\ t0 = 0
    /\ cancelAt = "none"
    /\ outcome = "none"
    /\ jsonCheckers = <<>>
    /\ lastCall = NoCall
    /\ lastExec = NoExec
    /\ raisedBy = NoPanic
    /\ RunInit
    /\ ConcIdle
    /\ MapIdle
    /\ SupInit
    /\ PollIdle
    /\ ChkIdle
    /\ ProbeIdle
    /\ CfgIdle
    /\ NextIdle
    /\ RegIdle
    /\ LogIdle

NextPromise ==
    \/ Qualify("Eventually", 0)
    \/ \E d \in Durations : Qualify("Within", d)
    \/ Qualify("Consistently", 0)
    \/ \E d \in Durations : Qualify("For", d)
    \/ Returns
    \/ Matcher("status", OkCode(kind), 1)
    \/ NextAssert

SpecPromise == PromiseInit /\ [][NextPromise]_vars

(***************************************************************************)
(* Specification SpecCheck: an assertion is given up to MaxCheckers        *)
(* checkers over its channels, then Assert is called on a system that      *)
(* answers anything.                                                       *)
(***************************************************************************)
CheckInit ==
    /\ kind \in {"http", "cli"}
    /\ timing \in {"immediate", "eventually", "consistently"}
    /\ timeout = 1
    /\ pollInterval = 1
    /\ statusCheckers = <<>>
    /\ bodyCheckers = <<>>
    /\ stable = FALSE
    /\ apc = "assert"
    /\ now = 0
    /\ deadline = 0
    /\ wake = 0
    /\ ctxDone = FALSE
    /\ obs = ZeroObs
    /\ pret = "none"
    /\ why = "none"
    /\ evals = <<>>
    /\ evalTimes = <<>>
    /\ t0 = 0
    /\ cancelAt = "none"
    /\ outcome = "none"
    /\ jsonCheckers = <<>>
    /\ lastCall = NoCall
    /\ lastExec = NoExec
    /\ raisedBy = NoPanic
    /\ RunInit
    /\ ConcIdle
    /\ MapIdle
    /\ SupInit
    /\ PollIdle
    /\ ChkIdle
    /\ ProbeIdle
    /\ CfgIdle
    /\ NextIdle
    /\ RegIdle
    /\ LogIdle

NextCheck ==
    \/ \E o \in NaturalObs(kind) : Matcher("status", o.code, MaxCheckers)
    \/ \E o \in NaturalObs(kind) : Matcher("body", o.text, MaxCheckers)
    \/ \E e \in {"leader", "follower"} :
          Matcher("json", [path |-> "role", expected |-> e], MaxCheckers)
    \/ NextAssert

SpecCheck == CheckInit /\ [][NextCheck]_vars

(***************************************************************************)
(* Do.Concurrently: one goroutine per function, each with a deferred       *)
(* recover that records the first panic under panicMu, and a deferred      *)
(* wg.Done.  The panic value of worker w is w.                             *)
(***************************************************************************)

\* wg.Wait() returns when the counter is zero.
WaitReady(count) == count = 0

\* "if panicErr == nil { panicErr = err }"
StorePanic_Last(old, err) == err
StorePanic(old, err) == IF old = 0 THEN err ELSE old

\* One pass of the for loop: wg.Add(1), go func(f).
Go ==
    /\ cres.how = "none"
    /\ spawned < fns
    /\ spawned' = spawned + 1
    /\ wgCount' = wgCount + 1
    /\ wpc' = [wpc EXCEPT ![spawned + 1] = "run"]
    /\ UNCHANGED <<fns, wout, panicMu, panicErr, recorded, cres>>
    /\ UNCHANGED <<runVars, assertVars, promVars, mapVars, supVars, pollVars, chkVars, probeVars, cfgVars, nextVars, regVars, logVars>>

\* f() returns (p = FALSE): the deferred recover finds nothing.  f() panics
\* (p = TRUE): the deferred recover gets the value and goes for panicMu.
FnEnd(w, p) ==
    /\ w \in 1..spawned
    /\ wpc[w] = "run"
    /\ wpc' = [wpc EXCEPT ![w] = IF p THEN "recover" ELSE "exit"]
    /\ wout' = [wout EXCEPT ![w] = IF p THEN "panicked" ELSE "returned"]
    /\ UNCHANGED <<fns, spawned, wgCount, panicMu, panicErr, recorded, cres>>
    /\ UNCHANGED <<runVars, assertVars, promVars, mapVars, supVars, pollVars, chkVars, probeVars, cfgVars, nextVars, regVars, logVars>>

\* panicMu.Lock()
RecoverLock(w) ==
    /\ w \in 1..spawned
    /\ wpc[w] = "recover"
    /\ panicMu = 0
    /\ panicMu' = w
    /\ recorded' = Append(recorded, w)
    /\ wpc' = [wpc EXCEPT ![w] = "locked"]
    /\ UNCHANGED <<fns, spawned, wout, wgCount, panicErr, cres>>
    /\ UNCHANGED <<runVars, assertVars, promVars, mapVars, supVars, pollVars, chkVars, probeVars, cfgVars, nextVars, regVars, logVars>>

\* The guarded assignment, then panicMu.Unlock().
RecoverStore(w) ==
    /\ w \in 1..spawned
    /\ wpc[w] = "locked"
    /\ panicErr' = StorePanic(panicErr, w)
    /\ panicMu' = 0
    /\ wpc' = [wpc EXCEPT ![w] = "exit"]
    /\ UNCHANGED <<fns, spawned, wout, wgCount, recorded, cres>>
    /\ UNCHANGED <<runVars, assertVars, promVars, mapVars, supVars, pollVars, chkVars, probeVars, cfgVars, nextVars, regVars, logVars>>

\* The deferred wg.Done().
WgDone(w) ==
    /\ w \in 1..spawned
    /\ wpc[w] = "exit"
    /\ wgCount' = wgCount - 1
    /\ wpc' = [wpc EXCEPT ![w] = "done"]
    /\ UNCHANGED <<fns, spawned, wout, panicMu, panicErr, recorded, cres>>
    /\ UNCHANGED <<runVars, assertVars, promVars, mapVars, supVars, pollVars, chkVars, probeVars, cfgVars, nextVars, regVars, logVars>>

\* wg.Wait() returns; panic(panicErr) when a panic was recorded.
Wait ==
    /\ cres.how = "none"
    /\ spawned = fns
    /\ WaitReady(wgCount)
    /\ cres' = (IF panicErr # 0 THEN [how |-> "raised", v |-> panicErr]
                                ELSE [how |-> "returned", v |-> 0])
    /\ UNCHANGED <<fns, spawned, wpc, wout, wgCount, panicMu, panicErr, recorded>>
    /\ UNCHANGED <<runVars, assertVars, promVars, mapVars, supVars, pollVars, chkVars, probeVars, cfgVars, nextVars, regVars, logVars>>

(***************************************************************************)
(* Specification SpecConc: one Concurrently call with up to MaxFns         *)
(* functions.                                                              *)
(***************************************************************************)
ConcInit ==
    /\ fns \in 0..MaxFns
    /\ spawned = 0
    /\ wpc = [w \in 1..fns |-> "idle"]
    /\ wout = [w \in 1..fns |-> "none"]
    /\ wgCount = 0
    /\ panicMu = 0
    /\ panicErr = 0
    /\ recorded = <<>>
    /\ cres = [how |-> "none", v |-> 0]
    /\ RunInit
    /\ AssertIdle
    /\ MapIdle
    /\ SupInit
    /\ PollIdle
    /\ ChkIdle
    /\ ProbeIdle
    /\ CfgIdle
    /\ NextIdle
    /\ RegIdle
    /\ LogIdle

NextConc ==
    \/ Go
    \/ \E w \in 1..MaxFns, p \in BOOLEAN : FnEnd(w, p)
    \/ \E w \in 1..MaxFns : RecoverLock(w)
    \/ \E w \in 1..MaxFns : RecoverStore(w)
    \/ \E w \in 1..MaxFns : WgDone(w)
    \/ Wait

SpecConc == ConcInit /\ [][NextConc]_vars

(***************************************************************************)
(* syncMap: Set under mu.Lock, Get and Range under mu.RLock.  A call that  *)
(* cannot take the lock waits (its action is not enabled).  Keys are the   *)
(* process names, values stand for the process records.                    *)
(***************************************************************************)
\* sync.RWMutex: Lock needs the lock free of writer and readers, RLock
\* free of a writer.
CanLock_IgnoreReaders(w, rs) == w = 0
CanLock(w, rs) == w = 0 /\ rs = {}

CanRLock(w) == w = 0

\* A goroutine that is not inside a call of the map.
NoOp == [op |-> "none", key |-> "n1", val |-> 0, pc |-> "idle"]

\* Set: m.mu.Lock()
Lock(g, key, value) ==
    /\ gpc[g].pc = "idle"
    /\ CanLock(writer, readers)
    /\ writer' = g
    /\ gpc' = [gpc EXCEPT ![g] = [op |-> "Set", key |-> key, val |-> value, pc |-> "locked"]]
    /\ UNCHANGED <<mapM, readers, completed>>
    /\ UNCHANGED <<runVars, assertVars, promVars, concVars, supVars, pollVars, chkVars, probeVars, cfgVars, nextVars, regVars, logVars>>

\* Set: m.m[key] = value
SetWrite(g) ==
    /\ gpc[g].pc = "locked"
    /\ mapM' = [mapM EXCEPT ![gpc[g].key] = gpc[g].val]
    /\ gpc' = [gpc EXCEPT ![g].pc = "written"]
    /\ UNCHANGED <<writer, readers, completed>>
    /\ UNCHANGED <<runVars, assertVars, promVars, concVars, supVars, pollVars, chkVars, probeVars, cfgVars, nextVars, regVars, logVars>>

\* Set: the deferred m.mu.Unlock(); Set returns.
Unlock(g) ==
    /\ gpc[g].pc = "written"
    /\ writer' = (IF writer = g THEN 0 ELSE writer)
    /\ completed' = [completed EXCEPT ![gpc[g].key] = gpc[g].val]
    /\ gpc' = [gpc EXCEPT ![g] = NoOp]
    /\ UNCHANGED <<mapM, readers>>
    /\ UNCHANGED <<runVars, assertVars, promVars, concVars, supVars, pollVars, chkVars, probeVars, cfgVars, nextVars, regVars, logVars>>

\* Get, Range: m.mu.RLock()
RLock(g, op, key) ==
    /\ gpc[g].pc = "idle"
    /\ CanRLock(writer)
    /\ readers' = readers \cup {g}
    /\ gpc' = [gpc EXCEPT ![g] = [op |-> op, key |-> key, val |-> 0, pc |-> "rlocked"]]
    /\ UNCHANGED <<mapM, writer, completed>>
    /\ UNCHANGED <<runVars, assertVars, promVars, concVars, supVars, pollVars, chkVars, probeVars, cfgVars, nextVars, regVars, logVars>>

\* Get: val, ok := m.m[key].  Range: the loop over m.m.
Read(g) ==
    /\ gpc[g].pc = "rlocked"
    /\ gpc' = [gpc EXCEPT ![g].pc = "read",
                          ![g].val = IF gpc[g].op = "Get" THEN mapM[gpc[g].key] ELSE 0]
    /\ UNCHANGED <<mapM, writer, readers, completed>>
    /\ UNCHANGED <<runVars, assertVars, promVars, concVars, supVars, pollVars, chkVars, probeVars, cfgVars, nextVars, regVars, logVars>>

\* Get, Range: the deferred m.mu.RUnlock(); the call returns.
RUnlock(g) ==
    /\ gpc[g].pc = "read"
    /\ readers' = readers \ {g}
    /\ gpc' = [gpc EXCEPT ![g] = NoOp]
    /\ UNCHANGED <<mapM, writer, completed>>
    /\ UNCHANGED <<runVars, assertVars, promVars, concVars, supVars, pollVars, chkVars, probeVars, cfgVars, nextVars, regVars, logVars>>

(***************************************************************************)
(* Specification SpecMap: up to MaxFns goroutines (the workers of a        *)
(* Concurrently call) call Set, Get and Range on one map.                  *)
(***************************************************************************)
MapInit ==
    /\ mapM = [k \in Names |-> 0]
    /\ writer = 0
    /\ readers = {}
    /\ gpc = [g \in 1..MaxFns |-> NoOp]
    /\ completed = [k \in Names |-> 0]
    /\ RunInit
    /\ AssertIdle
    /\ ConcIdle
    /\ SupInit
    /\ PollIdle
    /\ ChkIdle
    /\ ProbeIdle
    /\ CfgIdle
    /\ NextIdle
    /\ RegIdle
    /\ LogIdle

NextMap ==
    \/ \E g \in 1..MaxFns, key \in Names, value \in 1..MaxPids : Lock(g, key, value)
    \/ \E g \in 1..MaxFns : SetWrite(g)
    \/ \E g \in 1..MaxFns : Unlock(g)
    \/ \E g \in 1..MaxFns, key \in Names : RLock(g, "Get", key)
    \/ \E g \in 1..MaxFns : RLock(g, "Range", "n1")
    \/ \E g \in 1..MaxFns : Read(g)
    \/ \E g \in 1..MaxFns : RUnlock(g)

SpecMap == MapInit /\ [][NextMap]_vars

(***************************************************************************)
(* Do.Stop, Do.Kill and Do.Restart in steps, on the one child started      *)
(* under a name: the signal, the goroutine blocked in cmd.Wait, the select *)
(* of Stop on done and time.After, the sleep of Restart.                   *)
(***************************************************************************)
MaxCalls == 2      \* supervisor calls issued on the name

\* config.ProcessShutdownTimeout, in ticks.
ProcessShutdownTimeout == MaxTimeout

\* The state of a child in state st after sig went to its process group.
OnSignal(st, sig) ==
    IF st = "Stopped" THEN st
    ELSE IF sig = "SIGKILL" THEN "Killed"
    ELSE IF st = "Running" THEN "Exiting"
    ELSE st

\* syscall.Kill(-pgid, sig) fails once the child has exited and was reaped.
KillFails(st, r) == st = "Stopped" /\ r

\* "case <-time.After(do.config.ProcessShutdownTimeout)" can be taken.
ShutdownTimerDue_Never(e) == FALSE
ShutdownTimerDue_AtOnce(e) == TRUE
ShutdownTimerDue(e) == e >= ProcessShutdownTimeout

\* The child goes to state st.
Becomes(st) ==
    /\ child' = st
    /\ life' = (IF st = child THEN life ELSE Append(life, st))

\* A body calls Stop(name), Kill(name) or Restart(name, sig).  Stop (and
\* Restart with SIGTERM) signals the group and, unless that fails, starts
\* the goroutine that waits and enters the select; Kill (and Restart with
\* SIGKILL) signals the group and goes on.
Signal(op, sig) ==
    /\ sup.pc \in {"idle", "returned"}
    /\ repl = "none"
    /\ calls' = calls + 1
    /\ elapsed' = 0
    /\ IF KillFails(child, reaped)
       THEN UNCHANGED <<child, life, sent>>
       ELSE /\ Becomes(OnSignal(child, sig))
            /\ sent' = Append(sent, [sig |-> sig, by |-> op, at |-> 0, to |-> child])
    /\ sup' = [op |-> op, sig |-> sig,
               pc |-> IF sig = "SIGTERM" /\ ~KillFails(child, reaped) THEN "select"
                      ELSE IF op = "Restart" THEN "sleep"
                      ELSE "returned"]
    /\ UNCHANGED <<reaped, repl>>

SupCall(op, sig) ==
    /\ calls < MaxCalls
    /\ Signal(op, sig)
    /\ UNCHANGED <<runVars, assertVars, promVars, concVars, mapVars, pollVars, chkVars, probeVars, cfgVars, nextVars, regVars, logVars>>

\* Where Stop hands control when it returns.
AfterStop(op) == IF op = "Restart" THEN "sleep" ELSE "returned"

\* cmd.Wait() returns and done is sent; the select takes "case <-done", the
\* log file is closed, Stop returns.
SelectDone ==
    /\ sup.pc = "select"
    /\ child = "Stopped"
    /\ reaped' = TRUE
    /\ sup' = [sup EXCEPT !.pc = AfterStop(sup.op)]
    /\ UNCHANGED <<child, elapsed, repl, calls, life, sent>>
    /\ UNCHANGED <<runVars, assertVars, promVars, concVars, mapVars, pollVars, chkVars, probeVars, cfgVars, nextVars, regVars, logVars>>

\* The select takes the timer: do.Kill(name) sends SIGKILL to the group,
\* then Stop blocks on "<-done".
SelectTimeout ==
    /\ sup.pc = "select"
    /\ ShutdownTimerDue(elapsed)
    /\ Becomes(OnSignal(child, "SIGKILL"))
    /\ sent' = Append(sent, [sig |-> "SIGKILL", by |-> "Stop", at |-> elapsed, to |-> child])
    /\ sup' = [sup EXCEPT !.pc = "drain"]
    /\ UNCHANGED <<reaped, elapsed, repl, calls>>
    /\ UNCHANGED <<runVars, assertVars, promVars, concVars, mapVars, pollVars, chkVars, probeVars, cfgVars, nextVars, regVars, logVars>>

\* "<-done" after the escalation; the log file is closed, Stop returns.
Drain ==
    /\ sup.pc = "drain"
    /\ child = "Stopped"
    /\ reaped' = TRUE
    /\ sup' = [sup EXCEPT !.pc = AfterStop(sup.op)]
    /\ UNCHANGED <<child, elapsed, repl, calls, life, sent>>
    /\ UNCHANGED <<runVars, assertVars, promVars, concVars, mapVars, pollVars, chkVars, probeVars, cfgVars, nextVars, regVars, logVars>>

\* Where startWithPort calls do.processes.Set: after waitForPort returned.
SetPoint_AtSpawn(stage) == TRUE
SetPoint(stage) == stage = "probed"

\* Restart: time.Sleep(ProcessRestartDelay) is over, startWithPort.  With
\* the scope done it returns at once; otherwise cmd.Start spawns the
\* replacement (or fails, which panics).
RestartSpawn(ok) ==
    /\ sup.pc = "sleep"
    /\ repl' = (IF ~DoCtxDone /\ ok THEN "Running" ELSE repl)
    /\ IF ~DoCtxDone /\ ok
       THEN \E p \in (IF RestartPort(entry[1]) = 0 THEN Ports
                      ELSE {RestartPort(entry[1])}) :
               LET proc == [gen |-> entry[1].gen + 1, realPort |-> p,
                            how |-> "none"]
               IN  /\ spawning' = <<proc>>
                   /\ entry' = (IF SetPoint("spawned") THEN <<proc>> ELSE entry)
                   /\ sup' = [sup EXCEPT !.pc = "probe"]
       ELSE /\ sup' = [sup EXCEPT !.pc = "returned"]
            /\ UNCHANGED <<entry, spawning>>
    /\ UNCHANGED lookups
    /\ UNCHANGED <<child, reaped, elapsed, calls, life, sent>>
    /\ UNCHANGED <<runVars, assertVars, promVars, concVars, mapVars, pollVars, chkVars, probeVars, cfgVars, nextVars, logVars>>

\* waitForPort ends for the replacement: the dial succeeded, the scope was
\* cancelled, or ProcessStartTimeout passed (log.Fatalf); unless the process
\* exits, startWithPort goes on to do.processes.Set.
ProbeEnd(res) ==
    /\ sup.pc = "probe"
    /\ res = "cancelled" => DoCtxDone
    /\ res = "notReady" => ~DoCtxDone
    /\ IF ProbeFatal(res = "ready", res = "cancelled")
       THEN /\ sup' = [sup EXCEPT !.pc = "exited"]
            /\ UNCHANGED entry
       ELSE /\ sup' = [sup EXCEPT !.pc = "returned"]
            /\ entry' = (IF SetPoint("probed")
                         THEN <<[spawning[1] EXCEPT !.how = res]>>
                         ELSE entry)
    /\ spawning' = <<>>
    /\ UNCHANGED lookups
    /\ UNCHANGED <<child, reaped, elapsed, repl, calls, life, sent>>
    /\ UNCHANGED <<runVars, assertVars, promVars, concVars, mapVars, pollVars, chkVars, probeVars, cfgVars, nextVars, logVars>>

\* Do.HTTP(name, ...) called by another goroutine: getProcess, then the URL
\* from proc.realPort.
HTTPLookup ==
    /\ sup.pc # "exited"
    /\ Len(lookups) < MaxCalls
    /\ lookups' = Append(lookups,
           [found |-> entry # <<>>,
            port |-> IF entry # <<>> THEN entry[1].realPort ELSE 0,
            op |-> sup.op, pc |-> sup.pc])
    /\ UNCHANGED <<entry, spawning>>
    /\ UNCHANGED supVars
    /\ UNCHANGED <<runVars, assertVars, promVars, concVars, mapVars, pollVars, chkVars, probeVars, cfgVars, nextVars, logVars>>

\* The child exits: on SIGTERM if it handles it, on SIGKILL, or by itself.
ChildExit ==
    /\ child # "Stopped"
    /\ Becomes("Stopped")
    /\ UNCHANGED <<reaped, sup, elapsed, repl, calls, sent>>
    /\ UNCHANGED <<runVars, assertVars, promVars, concVars, mapVars, pollVars, chkVars, probeVars, cfgVars, nextVars, regVars, logVars>>

\* Time passes while Stop is blocked in the select with no case ready.
ShutdownTick ==
    /\ sup.pc = "select"
    /\ child # "Stopped"
    /\ elapsed < ProcessShutdownTimeout
    /\ elapsed' = elapsed + 1
    /\ UNCHANGED <<child, reaped, sup, repl, calls, life, sent>>
    /\ UNCHANGED <<runVars, assertVars, promVars, concVars, mapVars, pollVars, chkVars, probeVars, cfgVars, nextVars, regVars, logVars>>

\* exec.CommandContext(do.ctx, ...): with the scope done, the goroutine
\* watching it kills the child (os.Process.Kill).
WatchKill ==
    /\ DoCtxDone
    /\ child \in {"Running", "Exiting"}
    /\ Becomes("Killed")
    /\ sent' = Append(sent, [sig |-> "SIGKILL", by |-> "CommandContext",
                             at |-> elapsed, to |-> child])
    /\ UNCHANGED <<reaped, sup, elapsed, repl, calls>>
    /\ UNCHANGED <<runVars, assertVars, promVars, concVars, mapVars, pollVars, chkVars, probeVars, cfgVars, nextVars, regVars, logVars>>

(***************************************************************************)
(* Specification SpecStop: up to MaxCalls calls of Stop, Kill and Restart  *)
(* on one name, the child exiting when it will, the scope being cancelled  *)
(* at any moment.                                                          *)
(***************************************************************************)
NextStop ==
    \/ SupCall("Stop", "SIGTERM")
    \/ SupCall("Kill", "SIGKILL")
    \/ \E sig \in {"SIGTERM", "SIGKILL"} : SupCall("Restart", sig)
    \/ SelectDone
    \/ SelectTimeout
    \/ Drain
    \/ \E ok \in BOOLEAN : RestartSpawn(ok)
    \/ \E res \in {"ready", "notReady", "cancelled"} : ProbeEnd(res)
    \/ HTTPLookup
    \/ ChildExit
    \/ ShutdownTick
    \/ WatchKill
    \/ ParentCancel

SpecStop == DoInit /\ [][NextStop]_vars

(***************************************************************************)
(* The tail of Do.Stop and Do.Kill on one record, statement by statement:  *)
(* "if proc.logFile != nil { proc.logFile.Close(); proc.logFile = nil }",  *)
(* run by the workers of a Concurrently call with no lock held.            *)
(***************************************************************************)
\* What the unsynchronised read of proc.logFile may see: the field, or the
\* handle another goroutine has cleared since this call began.
SeesHandle(g) == {logFile} \cup (IF closer[g].raced THEN {TRUE} ELSE {})

\* Worker g calls Kill(name), or Stop(name); Stop calls Kill itself when the
\* shutdown timeout passes (escalates) and tests the field again afterwards.
LogCall(g, op, escalates) ==
    /\ closer[g].pc = "idle"
    /\ closer' = [closer EXCEPT ![g] =
           [op |-> op,
            pc |-> IF op = "Stop" /\ escalates THEN "kill_test" ELSE "test",
            raced |-> FALSE]]
    /\ UNCHANGED <<logFile, closes>>
    /\ UNCHANGED <<runVars, assertVars, promVars, concVars, mapVars, supVars, pollVars, chkVars, probeVars, cfgVars, nextVars, regVars>>

\* Where a call goes after its if statement.
AfterIf(pos) == IF pos \in {"kill_test", "kill_clear"} THEN "test" ELSE "returned"

\* "if proc.logFile != nil"
LogTest(g) ==
    /\ closer[g].pc \in {"test", "kill_test"}
    /\ \E seen \in SeesHandle(g) :
           closer' = [closer EXCEPT ![g].pc =
               IF seen
               THEN (IF closer[g].pc = "test" THEN "close" ELSE "kill_close")
               ELSE AfterIf(closer[g].pc)]
    /\ UNCHANGED <<logFile, closes>>
    /\ UNCHANGED <<runVars, assertVars, promVars, concVars, mapVars, supVars, pollVars, chkVars, probeVars, cfgVars, nextVars, regVars>>

\* "proc.logFile.Close()"
LogClose(g) ==
    /\ closer[g].pc \in {"close", "kill_close"}
    /\ closes' = closes + 1
    /\ closer' = [closer EXCEPT ![g].pc =
           IF closer[g].pc = "close" THEN "clear" ELSE "kill_clear"]
    /\ UNCHANGED logFile
    /\ UNCHANGED <<runVars, assertVars, promVars, concVars, mapVars, supVars, pollVars, chkVars, probeVars, cfgVars, nextVars, regVars>>

\* "proc.logFile = nil": a write the calls still running are not
\* synchronised with.
LogClear(g) ==
    /\ closer[g].pc \in {"clear", "kill_clear"}
    /\ logFile' = FALSE
    /\ closer' = [h \in 1..MaxFns |->
           IF h = g THEN [closer[g] EXCEPT !.pc = AfterIf(closer[g].pc)]
           ELSE IF closer[h].pc \notin {"idle", "returned"}
           THEN [closer[h] EXCEPT !.raced = TRUE]
           ELSE closer[h]]
    /\ UNCHANGED closes
    /\ UNCHANGED <<runVars, assertVars, promVars, concVars, mapVars, supVars, pollVars, chkVars, probeVars, cfgVars, nextVars, regVars>>

LogInit ==
    /\ logFile = TRUE
    /\ closes = 0
    /\ closer = [g \in 1..MaxFns |-> NoCloser]
    /\ RunInit
    /\ AssertIdle
    /\ ConcIdle
    /\ MapIdle
    /\ SupInit
    /\ PollIdle
    /\ ChkIdle
    /\ ProbeIdle
    /\ CfgIdle
    /\ NextIdle
    /\ RegIdle

NextLog ==
    \/ \E g \in 1..MaxFns : LogCall(g, "Kill", FALSE)
    \/ \E g \in 1..MaxFns, escalates \in BOOLEAN : LogCall(g, "Stop", escalates)
    \/ \E g \in 1..MaxFns : LogTest(g)
    \/ \E g \in 1..MaxFns : LogClose(g)
    \/ \E g \in 1..MaxFns : LogClear(g)

SpecLog == LogInit /\ [][NextLog]_vars

(***************************************************************************)
(* Do.Done after the body's calls: the scope is cancelled, the names of    *)
(* the map are collected and Stop is called on each in turn.  "n1" is the  *)
(* supervised child, "n2" a record with no command (MockProcess).          *)
(***************************************************************************)
\* "proc.cmd == nil || proc.cmd.Process == nil": Stop returns at once.
NoOSProcess(name) == name = "n2"

\* A body calls Stop or Kill on the child before Done runs.
BodyCall(op, sig) ==
    /\ ~doCancelled
    /\ SupCall(op, sig)

\* Done: do.cancel(), then Range collects the names.
DoneEnter(names) ==
    /\ pc = "setup"
    /\ sup.pc \in {"idle", "returned"}
    /\ doCancelled' = TRUE
    /\ pending' = names
    /\ pc' = "done_stop"
    /\ UNCHANGED <<setupFn, tests, idx, cur, failed, ret, parentDone,
                   processes, procs, started, active, panicked, lastStart,
                   restarts, allocBy, sigs, doneStops, printed>>
    /\ UNCHANGED <<supVars, regVars, assertVars, promVars, concVars, mapVars, pollVars, chkVars, probeVars, cfgVars, nextVars, logVars>>

\* Done calls do.Stop(name) for the next collected name.
DoneStopCall(name) ==
    /\ pc = "done_stop"
    /\ name \in pending
    /\ pending' = pending \ {name}
    /\ IF NoOSProcess(name)
       THEN /\ sup.pc \in {"idle", "returned"}
            /\ sup' = [op |-> "Done", sig |-> "none", pc |-> "returned"]
            /\ UNCHANGED <<child, reaped, elapsed, repl, calls, life, sent>>
       ELSE Signal("Done", "SIGTERM")
    /\ UNCHANGED <<pc, doCancelled, setupFn, tests, idx, cur, failed, ret, parentDone,
                   processes, procs, started, active, panicked, lastStart,
                   restarts, allocBy, sigs, doneStops, printed>>
    /\ UNCHANGED <<regVars, assertVars, promVars, concVars, mapVars, pollVars, chkVars, probeVars, cfgVars, nextVars, logVars>>

\* The last Stop has returned: Done returns.
DoneEnd ==
    /\ pc = "done_stop"
    /\ pending = {}
    /\ sup.pc \in {"idle", "returned"}
    /\ pc' = "returned"
    /\ UNCHANGED <<doCancelled, pending, setupFn, tests, idx, cur, failed, ret, parentDone,
                   processes, procs, started, active, panicked, lastStart,
                   restarts, allocBy, sigs, doneStops, printed>>
    /\ UNCHANGED <<supVars, regVars, assertVars, promVars, concVars, mapVars, pollVars, chkVars, probeVars, cfgVars, nextVars, logVars>>

NextDone ==
    \/ BodyCall("Stop", "SIGTERM")
    \/ BodyCall("Kill", "SIGKILL")
    \/ \E names \in SUBSET Names : DoneEnter(names)
    \/ \E name \in Names : DoneStopCall(name)
    \/ DoneEnd
    \/ SelectDone
    \/ SelectTimeout
    \/ Drain
    \/ ChildExit
    \/ ShutdownTick
    \/ WatchKill
    \/ ParentCancel

\* The goroutines of Done and Stop are scheduled, time.After fires, cmd.Wait
\* returns once the child is gone, and a child that was sent SIGKILL exits.
\* A child that was only sent SIGTERM need never exit.
DoneFair ==
    /\ WF_vars(\E name \in Names : DoneStopCall(name))
    /\ WF_vars(DoneEnd)
    /\ WF_vars(SelectDone)
    /\ WF_vars(SelectTimeout)
    /\ WF_vars(Drain)
    /\ WF_vars(ShutdownTick)
    /\ WF_vars(child = "Killed" /\ ChildExit)

SpecDone == DoInit /\ [][NextDone]_vars /\ DoneFair

(***************************************************************************)
(* The checkers as pure functions of the value checked.  Strings are       *)
(* sequences of the characters "a" and "b"; a document maps the path       *)
(* "role" to a gjson result, and every other path is missing.              *)
(***************************************************************************)
MaxStr == 1        \* longest string checked or expected
MaxNot == 1        \* deepest nesting of Not(...)

Str == UNION {[1..n -> {"a", "b"}] : n \in 0..MaxStr}

\* Is(value), Contains(substring), HasLen(length), OneOf(values...), Not(c)
Is(value) == [op |-> "is", values |-> <<value>>, length |-> 0, checker |-> <<>>]
Contains(substring) ==
    [op |-> "contains", values |-> <<substring>>, length |-> 0, checker |-> <<>>]
HasLen(length) ==
    [op |-> "hasLen", values |-> <<>>, length |-> length, checker |-> <<>>]
OneOf(values) ==
    [op |-> "oneOf", values |-> values, length |-> 0, checker |-> <<>>]
Not(checker) ==
    [op |-> "not", values |-> <<>>, length |-> 0, checker |-> <<checker>>]

\* The checkers drawn: every constructor, under at most MaxNot negations.
BaseCheckers ==
    {IsNull} \cup {Is(v) : v \in Str} \cup {Contains(v) : v \in Str}
        \cup {HasLen(n) : n \in 0..(MaxStr + 1)}
        \cup {OneOf(vs) : vs \in UNION {[1..n -> Str] : n \in 0..2}}

RECURSIVE Negated(_)
Negated(n) ==
    IF n = 0 THEN BaseCheckers
    ELSE Negated(n - 1) \cup {Not(c) : c \in Negated(n - 1)}

Checkers == Negated(MaxNot)

\* gjson results of the path "role": null, a string, a number (Value() is a
\* float64), a boolean (Value() is a bool), an array or object of len
\* elements whose raw text str is longer than that.
Results ==
    {NullResult}
        \cup {[type |-> "String", str |-> v, len |-> Len(v)] : v \in Str}
        \cup {[type |-> "Number", str |-> v, len |-> -1] : v \in Str \ {<<>>}}
        \cup {[type |-> "Bool", str |-> v, len |-> -1] : v \in Str \ {<<>>}}
        \cup UNION {{[type |-> "JSON", str |-> v, len |-> n] :
                        n \in 0..(Len(v) - 1)} : v \in Str \ {<<>>}}

\* strings.Contains
stringsContains(s, substr) ==
    \E i \in 1..(Len(s) + 1) :
        /\ i + Len(substr) - 1 <= Len(s)
        /\ SubSeq(s, i, i + Len(substr) - 1) = substr

\* oneOfChecker.Check: the loop over m.values.
RECURSIVE oneOfCheck(_, _, _)
oneOfCheck(values, i, actual) ==
    IF i > Len(values) THEN FALSE
    ELSE IF actual = values[i] THEN TRUE
    ELSE oneOfCheck(values, i + 1, actual)

\* notChecker.Check: "return !m.checker.Check(actual)".
notCheck_Same(inner) == inner
notCheck(inner) == ~inner

\* Checker[string].Check, by the dynamic type of the checker.  On a string
\* reflect.ValueOf(actual).Kind() is String: IsNull answers false, HasLen
\* compares the length in bytes.
RECURSIVE CheckerCheck(_, _)
CheckerCheck(m, actual) ==
    CASE m.op = "is" -> actual = m.values[1]
      [] m.op = "isNull" -> FALSE
      [] m.op = "contains" -> stringsContains(actual, m.values[1])
      [] m.op = "hasLen" -> Len(actual) = m.length
      [] m.op = "oneOf" -> oneOfCheck(m.values, 1, actual)
      [] m.op = "not" -> notCheck(CheckerCheck(m.checker[1], actual))

Verdict(b) == IF b THEN "true" ELSE "false"

\* gjson.Get(actual, m.path)
gjsonResult(json, path) ==
    IF path \in DOMAIN json THEN json[path] ELSE NullResult

\* JSONFieldChecker.Check: the type switch on m.checker.  In the HasLen
\* case reflect.ValueOf(result.Value()).Len() panics on nil, float64 and
\* bool.
FieldCheck(path, checker, json) ==
    LET result == gjsonResult(json, path) IN
    CASE checker.op = "isNull" -> Verdict(result.type = "Null")
      [] checker.op = "hasLen" ->
            IF result.len < 0 THEN "panic"
            ELSE Verdict(result.len = checker.length)
      [] OTHER ->
            IF result.type = "Null" THEN "false"
            ELSE Verdict(CheckerCheck(checker, result.str))

\* A checker and a value; or a JSONFieldChecker and a document.
ChkInit ==
    /\ chk \in Checkers
    /\ \/ /\ jsonPath = ""
          /\ actualVal \in Str
          /\ jsonBody = [p \in {"role"} |-> NullResult]
       \/ /\ jsonPath \in {"role", "leader"}
          /\ actualVal = <<>>
          /\ jsonBody \in [{"role"} -> Results]
    /\ verdicts = <<>>
    /\ RunInit
    /\ AssertIdle
    /\ ConcIdle
    /\ MapIdle
    /\ SupInit
    /\ PollIdle
    /\ ProbeIdle
    /\ CfgIdle
    /\ NextIdle
    /\ RegIdle
    /\ LogIdle

\* m.Check(actual) on the bare checker.
CheckValue ==
    /\ jsonPath = ""
    /\ Len(verdicts) < MaxCalls
    /\ verdicts' = Append(verdicts, Verdict(CheckerCheck(chk, actualVal)))
    /\ UNCHANGED <<chk, actualVal, jsonBody, jsonPath>>
    /\ UNCHANGED <<runVars, assertVars, promVars, concVars, mapVars, supVars,
                   pollVars, probeVars, cfgVars, nextVars, regVars, logVars>>

\* JSON(path, checker).Check(body)
CheckField ==
    /\ jsonPath # ""
    /\ Len(verdicts) < MaxCalls
    /\ verdicts' = Append(verdicts, FieldCheck(jsonPath, chk, jsonBody))
    /\ UNCHANGED <<chk, actualVal, jsonBody, jsonPath>>
    /\ UNCHANGED <<runVars, assertVars, promVars, concVars, mapVars, supVars,
                   pollVars, probeVars, cfgVars, nextVars, regVars, logVars>>

NextChk ==
    \/ CheckValue
    \/ CheckField

SpecChk == ChkInit /\ [][NextChk]_vars

(***************************************************************************)
(* The commands `lsfr new`, `lsfr test` and `lsfr next` on lsfr.yaml.      *)
(***************************************************************************)
MaxStages == 3     \* stages of the challenge
MaxNext == 3       \* commands run in the directory

\* challenge.StageOrder of a challenge with n stages: the keys in the order
\* of AddStage.
StageOrder(n) == [i \in 1..n |-> CASE i = 1 -> "s1" [] i = 2 -> "s2"
                                    [] i = 3 -> "s3" [] OTHER -> "s4"]

\* challenge.StageIndex(key): the position of key in StageOrder, from 0, or
\* -1 when the challenge has no such stage.
StageIndex(order, key) ==
    IF \E i \in 1..Len(order) : order[i] = key
    THEN (CHOOSE i \in 1..Len(order) : order[i] = key) - 1
    ELSE -1

\* isStageCompleted
isStageCompleted(stageKey, completedStages) ==
    \E i \in 1..Len(completedStages) : completedStages[i] = stageKey

\* createChallengeFiles: lsfr.yaml as `lsfr new` writes it.
NextInit ==
    /\ stageCount \in 1..MaxStages
    /\ yaml = [current |-> StageOrder(stageCount)[1], completed |-> <<>>]
    /\ invocations = <<>>
    /\ RunInit
    /\ AssertIdle
    /\ ConcIdle
    /\ MapIdle
    /\ SupInit
    /\ PollIdle
    /\ ChkIdle
    /\ ProbeIdle
    /\ CfgIdle
    /\ RegIdle
    /\ LogIdle

\* "cfg.Stages.Current = nextStageKey" of NextStage.
Advance_Skip(order, currentIndex) ==
    order[IF currentIndex + 3 <= Len(order) THEN currentIndex + 3
          ELSE currentIndex + 2]
Advance(order, currentIndex) == order[currentIndex + 2]

\* "if !isCurrentCompleted { ... cfg.Stages.Completed = append(...) }"
MarkCompleted_Always(completedStages, stageKey, isCompleted) ==
    Append(completedStages, stageKey)
MarkCompleted(completedStages, stageKey, isCompleted) ==
    IF isCompleted THEN completedStages ELSE Append(completedStages, stageKey)

\* The config NextStage holds when it returns nil or the error of Save, for
\* the config cfg it loaded and the outcome of the stage's tests.
NextConfig(order, cfg, passed) ==
    LET currentIndex == StageIndex(order, cfg.current)
        isCurrentCompleted == isStageCompleted(cfg.current, cfg.completed)
        nowCompleted == MarkCompleted(cfg.completed, cfg.current,
                                      isCurrentCompleted)
    IN  IF currentIndex = Len(order) - 1
        THEN [current |-> cfg.current, completed |-> nowCompleted]
        ELSE [current |-> Advance(order, currentIndex),
              completed |-> nowCompleted]

\* `lsfr next`.  runsh: run.sh exists; passed: what the stage's suite
\* returns if it is run; saved: config.Save succeeds.
NextStage(runsh, passed, saved) ==
    /\ Len(invocations) < MaxNext
    /\ LET order == StageOrder(stageCount)
           currentIndex == StageIndex(order, yaml.current)
           isCurrentCompleted == isStageCompleted(yaml.current, yaml.completed)
           returnsEarly == \/ ~runsh
                           \/ currentIndex = -1
                           \/ ~isCurrentCompleted /\ ~passed
       IN  /\ yaml' = (IF returnsEarly \/ ~saved THEN yaml
                       ELSE NextConfig(order, yaml, passed))
           /\ invocations' = Append(invocations,
                  [cmd |-> "next", passed |-> (runsh /\ ~isCurrentCompleted /\ passed),
                   before |-> yaml, after |-> yaml'])
    /\ UNCHANGED stageCount
    /\ UNCHANGED <<runVars, assertVars, promVars, concVars, mapVars, supVars,
                   pollVars, chkVars, probeVars, cfgVars, regVars, logVars>>

\* `lsfr test`: the current stage's tests are run; lsfr.yaml is only read.
TestStage(runsh, passed) ==
    /\ Len(invocations) < MaxNext
    /\ invocations' = Append(invocations,
           [cmd |-> "test", passed |-> (runsh /\ passed), before |-> yaml,
            after |-> yaml])
    /\ UNCHANGED <<stageCount, yaml>>
    /\ UNCHANGED <<runVars, assertVars, promVars, concVars, mapVars, supVars,
                   pollVars, chkVars, probeVars, cfgVars, regVars, logVars>>

NextNext ==
    \/ \E runsh, passed, saved \in BOOLEAN : NextStage(runsh, passed, saved)
    \/ \E runsh, passed \in BOOLEAN : TestStage(runsh, passed)

SpecNext == NextInit /\ [][NextNext]_vars

(***************************************************************************)
(* Suite.WithConfig and the config Run uses.                               *)
(***************************************************************************)
MaxDur == 1        \* largest duration a caller sets, in milliseconds

TextFields == {"Command", "WorkingDir"}
DurationFields == {"ProcessStartTimeout", "ProcessShutdownTimeout",
              "ProcessRestartDelay", "DefaultRetryTimeout",
              "RetryPollInterval", "ExecuteTimeout"}

\* The zero value of a field's type.
Zero(f) == IF f \in TextFields THEN "" ELSE 0

\* The Config values a caller passes: each text empty or set, each duration
\* negative, zero or positive.
Configs ==
    [Command : {"", "./x.sh"}, WorkingDir : {"", "w"},
     ProcessStartTimeout : -1..MaxDur, ProcessShutdownTimeout : -1..MaxDur,
     ProcessRestartDelay : -1..MaxDur, DefaultRetryTimeout : -1..MaxDur,
     RetryPollInterval : -1..MaxDur, ExecuteTimeout : -1..MaxDur]

\* "if config.F != zero { merged.F = config.F }"
MergeField_KeepDefault(default, given, zero) == default
MergeField(default, given, zero) == IF given # zero THEN given ELSE default

CfgInit ==
    /\ userCfg \in Configs
    /\ sconfig = <<>>
    /\ effective = <<>>
    /\ RunInit
    /\ AssertIdle
    /\ ConcIdle
    /\ MapIdle
    /\ SupInit
    /\ PollIdle
    /\ ChkIdle
    /\ ProbeIdle
    /\ NextIdle
    /\ RegIdle
    /\ LogIdle

\* Suite.WithConfig(config)
WithConfig ==
    /\ effective = <<>>
    /\ sconfig' = <<[f \in TextFields \cup DurationFields |->
                        MergeField(DefaultConfig[f], userCfg[f], Zero(f))]>>
    /\ UNCHANGED <<userCfg, effective>>
    /\ UNCHANGED <<runVars, assertVars, promVars, concVars, mapVars, supVars,
                   pollVars, chkVars, probeVars, nextVars, regVars, logVars>>

\* Suite.Run, up to newDo(ctx, config).
RunConfig ==
    /\ effective = <<>>
    /\ effective' = (IF sconfig = <<>> THEN <<DefaultConfig>> ELSE sconfig)
    /\ UNCHANGED <<userCfg, sconfig>>
    /\ UNCHANGED <<runVars, assertVars, promVars, concVars, mapVars, supVars,
                   pollVars, chkVars, probeVars, nextVars, regVars, logVars>>

NextCfg ==
    \/ WithConfig
    \/ RunConfig

SpecCfg == CfgInit /\ [][NextCfg]_vars

(***************************************************************************)
(* Properties of Suite.Run (specification Spec).                           *)
(***************************************************************************)

\* C1: once the body of the test at position N has panicked, no body at a
\* position greater than N is ever started.
C1_StopOnFirstFailure ==
    \A N \in panicked :
        N >= 1 => \A i \in 1..Len(started) : started[i].pos <= N

\* A run in which a test that is not the last one panicked has returned.
C1_Witness ==
    /\ pc = "returned"
    /\ \E N \in panicked : N >= 1 /\ N < Len(tests)

\* C2: a panic of the setup body keeps every test body from running, makes
\* Run return false, and Run returns only after Done has cancelled the
\* scope and stopped every process it collected.
C2_SetupIsolation ==
    0 \in panicked =>
        /\ \A i \in 1..Len(started) : started[i].pos = 0
        /\ pc = "returned" => (ret = "false" /\ doCancelled /\ pending = {})

\* The setup body of a suite with tests spawned a process and panicked, and
\* Run has returned.
C2_Witness ==
    /\ 0 \in panicked
    /\ Len(tests) >= 1
    /\ Len(procs) >= 1
    /\ pc = "returned"

\* C5: bodies start in registration order, the setup body first, and a body
\* starts only when every body started before it is over.
C5_RegistrationOrder ==
    LET k == IF setupFn THEN 1 ELSE 0 IN
    /\ \A i \in 1..Len(started) : started[i].id = i - k
    /\ Cardinality(active) <= 1
    /\ pc = "body" => active = {cur}
    /\ \A i \in 1..Len(started) : started[i].pos >= 1 => 0 \notin active

\* The second test of a suite with a setup body is running.
C5_Witness ==
    /\ setupFn
    /\ Len(started) = 3
    /\ pc = "body"

(***************************************************************************)
(* Properties of the process supervisor (specification SpecDo).            *)
(***************************************************************************)

\* C3: when Done has returned, no child spawned by Start or Restart is
\* still alive.
C3_NoChildAliveAfterDone ==
    pc = "returned" => \A pid \in 1..Len(procs) : ~Alive(procs[pid])

\* C4: the record registered under a name carries the port and the args of
\* the latest Start of that name, however many Restarts followed, and only
\* Start ever asks the kernel for a port.
C4_RestartKeepsPortAndArgs ==
    /\ \A n \in DOMAIN processes :
          /\ processes[n].realPort = lastStart[n].port
          /\ processes[n].args = lastStart[n].args
    /\ allocBy \subseteq {"Start"}

\* A name has been restarted and its replacement is registered.
C4_Witness ==
    \E n \in DOMAIN processes :
        /\ restarts[n] >= 1
        /\ procs[processes[n].pid] = "running"

(***************************************************************************)
(* Properties of the pollers and of Assert (specification SpecAssert).     *)
(***************************************************************************)

\* C6: eventually returns true exactly when an evaluation of condition
\* yielded true; it returns false only at the deadline or on cancellation;
\* and condition is first evaluated one pollInterval after the call at the
\* earliest.
C6_EventuallyResult ==
    timing = "eventually" =>
        /\ pret # "none" => (pret = "true" <=> \E i \in 1..Len(evals) : evals[i])
        /\ (\E i \in 1..Len(evals) : evals[i]) => pret = "true"
        /\ pret = "false" => why \in {"deadline", "cancel"}
        /\ why = "deadline" => now >= deadline
        /\ why = "cancel" => ctxDone
        /\ Len(evalTimes) >= 1 => evalTimes[1] >= t0 + pollInterval

\* eventually returned true on an evaluation that followed a failed one.
C6_Witness ==
    /\ timing = "eventually"
    /\ pret = "true"
    /\ Len(evals) >= 2
    /\ ~evals[1]

\* C7: consistently returns false at the first evaluation that yields
\* false, with no evaluation after it, and returns true when the deadline
\* passes with no evaluation having yielded false.
C7_ConsistentlyResult ==
    timing = "consistently" =>
        /\ \A i \in 1..Len(evals) :
              ~evals[i] => /\ i = Len(evals)
                           /\ Len(evalTimes) = Len(evals)
                           /\ apc \in {"check", "done"}
                           /\ pret = "false"
        /\ why = "deadline" => /\ pret = "true"
                               /\ now >= deadline
                               /\ \A i \in 1..Len(evals) : evals[i]

\* consistently returned false on an evaluation that followed a passing one.
C7_Witness ==
    /\ timing = "consistently"
    /\ Len(evals) >= 2
    /\ ~evals[Len(evals)]
    /\ pret = "false"

\* C8: consistently returns true when it returns because the scope was
\* cancelled.
C8_ConsistentlyTrueOnCancel ==
    (timing = "consistently" /\ why = "cancel") => pret = "true"

\* C9: a Consistently assertion (over a window of positive length) on a
\* system whose every response satisfies the checkers returns normally when
\* the scope is cancelled during the consistency check.
C9_ConsistentlyPassesOnCancel ==
    ( /\ timing = "consistently"
      /\ timeout > 0
      /\ stable
      /\ cancelAt \in {"loop", "select", "call", "inflight"}
      /\ apc = "done" ) => outcome = "returned"

\* C10: an Eventually assertion raises when no execution satisfied the
\* checkers by the deadline or the cancellation.
C10_EventuallyRaisesOnFailure ==
    ( /\ timing = "eventually"
      /\ apc = "done"
      /\ \A i \in 1..Len(evals) : ~evals[i] ) => outcome = "raised"

\* C19: Done stops nothing before it has cancelled the scope, and then calls
\* Stop exactly once for every name the map holds at that moment (and for no
\* other name); each of these calls has waited for its child when Done
\* returns.
C19_DoneCancelsThenStops ==
    /\ (\E n \in Names : doneStops[n] > 0) => doCancelled
    /\ pc = "done_stop" =>
          \A n \in Names : doneStops[n] =
              (IF n \in DOMAIN processes /\ n \notin pending THEN 1 ELSE 0)
    /\ pc = "returned" =>
          \A n \in Names :
             /\ doneStops[n] = (IF n \in DOMAIN processes THEN 1 ELSE 0)
             /\ n \in DOMAIN processes => procs[processes[n].pid] = "reaped"

\* Done has returned after stopping two names, one of which was running
\* until Stop signalled it.
C19_Witness ==
    /\ pc = "returned"
    /\ \A n \in Names : doneStops[n] = 1
    /\ \E n \in Names :
          sigs[processes[n].pid] = <<[sig |-> "SIGTERM", by |-> "Stop"]>>

\* C20: of the signals that Done and the cancelled scope send to a managed
\* child that is still running, no SIGKILL comes before a SIGTERM.
C20_TermBeforeKill ==
    \A pid \in DOMAIN sigs : \A i \in 1..Len(sigs[pid]) :
        sigs[pid][i].sig = "SIGKILL" =>
            \E j \in 1..(i - 1) : sigs[pid][j].sig = "SIGTERM"

(***************************************************************************)
(* Properties of the promise (specification SpecPromise).                  *)
(***************************************************************************)

\* C11: Within(d) on a promise that is not in Eventually mode, and For(d) on
\* one that is not in Consistently mode, raises at once, before anything is
\* executed, and leaves mode and timeout as they were; on a promise in the
\* matching mode the call sets the timeout to d and keeps the mode.
C11_QualifierGuards ==
    LET match == IF lastCall.op = "Within" THEN "eventually" ELSE "consistently" IN
    lastCall.op \in {"Within", "For"} =>
        IF lastCall.timing # match
        THEN /\ outcome = "raised"
             /\ raisedBy.chan = "misuse"
             /\ apc = "done"
             /\ timing = lastCall.timing
             /\ timeout = lastCall.timeout
             /\ Len(evalTimes) = 0
        ELSE /\ raisedBy.chan # "misuse"
             /\ timing = match
             /\ timeout = lastCall.d

\* For(d) was called on a promise in Eventually mode whose timeout differs
\* from d.
C11_Witness ==
    /\ lastCall.op = "For"
    /\ lastCall.timing = "eventually"
    /\ lastCall.d # lastCall.timeout
    /\ outcome = "raised"

\* C12, as stated: a timing mode, once selected, is the promise's mode for
\* good.
C12_SelectionKept ==
    [][timing # "immediate" => timing' = timing]_vars

\* C12, as the code has it: the mode starts as Immediate and, once
\* Eventually or Consistently is selected, never is Immediate again; a later
\* Eventually() or Consistently() replaces the selection and resets the
\* timeout to the default.
C12_NeverImmediateAgain ==
    /\ lastCall.op = "none" => timing = "immediate"
    /\ lastCall.timing # "immediate" => timing # "immediate"
    /\ lastCall.op = "Eventually" =>
          (timing = "eventually" /\ timeout = defaultTimeout)
    /\ lastCall.op = "Consistently" =>
          (timing = "consistently" /\ timeout = defaultTimeout)

\* Consistently() was called on a promise in Eventually mode with a timeout
\* set by Within.
C12_Witness ==
    /\ lastCall.op = "Consistently"
    /\ lastCall.timing = "eventually"
    /\ lastCall.timeout # defaultTimeout
    /\ timing = "consistently"

\* C13: nothing is executed while the promise is built, qualified and given
\* matchers, nor by a qualifier call that raises; an Assert in Immediate mode
\* that has left execute has executed exactly once.
C13_ExecutedOnlyInAssert ==
    /\ (apc \in {"promise", "assert"} \/ raisedBy.chan = "misuse") =>
          (Len(evalTimes) = 0 /\ lastExec = NoExec /\ obs = ZeroObs)
    /\ (timing = "immediate" /\ apc \in {"call", "inflight"}) => Len(evalTimes) = 1
    /\ (timing = "immediate" /\ apc \in {"check", "done"} /\ raisedBy.chan # "misuse") =>
          (Len(evalTimes) = 1 /\ lastExec.how # "none")

\* An Immediate HTTP assertion with a status matcher has returned normally.
C13_Witness ==
    /\ timing = "immediate"
    /\ lastCall.op = "none"
    /\ Len(statusCheckers) = 1
    /\ apc = "done"
    /\ outcome = "returned"

(***************************************************************************)
(* Properties of the check step (specification SpecCheck).                 *)
(***************************************************************************)

\* C14: Assert returns normally only if every checker of every channel
\* accepts the observation recorded last; when check raises, the panic is
\* that of a checker which rejects that observation while every checker of
\* an earlier channel (status or exit code, then body or output, then JSON)
\* and every earlier checker of its own channel accepts it.
C14_FirstFailingMatcher ==
    LET okS(i) == statusCheckers[i] = obs.code
        okB(i) == bodyCheckers[i] = obs.text
        okJ(i) == /\ gjsonGet(obs.text, jsonCheckers[i].path) # "null"
                  /\ gjsonGet(obs.text, jsonCheckers[i].path) = jsonCheckers[i].expected
        allS == \A i \in 1..Len(statusCheckers) : okS(i)
        allB == \A i \in 1..Len(bodyCheckers) : okB(i)
        allJ == \A i \in 1..Len(jsonCheckers) : okJ(i)
        n == raisedBy.i
    IN  /\ outcome = "returned" => (allS /\ allB /\ allJ)
        /\ (outcome = "raised" /\ raisedBy.chan = "status") =>
              (~okS(n) /\ \A j \in 1..(n - 1) : okS(j))
        /\ (outcome = "raised" /\ raisedBy.chan = "body") =>
              (allS /\ ~okB(n) /\ \A j \in 1..(n - 1) : okB(j))
        /\ (outcome = "raised" /\ raisedBy.chan = "json") =>
              (allS /\ allB /\ ~okJ(n) /\ \A j \in 1..(n - 1) : okJ(j))
        /\ outcome = "raised" => raisedBy.chan \in {"status", "body", "json", "execute"}

\* The status checker accepted the response, the first body checker too,
\* and check raised on the second body checker.
C14_Witness ==
    /\ kind = "http"
    /\ Len(statusCheckers) = 1
    /\ outcome = "raised"
    /\ raisedBy = [chan |-> "body", i |-> 2]

(***************************************************************************)
(* Properties of execute (specification SpecAssert).                       *)
(***************************************************************************)

\* C15: an HTTP execution that ends in a transport error (a refused
\* connection, the client's timeout, an aborted request) makes Assert raise
\* the error of execute at once: the poller does not return, no checker
\* judges the execution, and no execution follows it.
C15_TransportErrorRaises ==
    (kind = "http" /\ lastExec.how \in {"error", "timeout", "cancel"}) =>
        /\ apc = "done"
        /\ outcome = "raised"
        /\ raisedBy = [chan |-> "execute", i |-> 0]
        /\ pret = "none"
        /\ Len(evals) = Len(evalTimes) - 1

\* A Consistently HTTP assertion was ended by a transport error after an
\* execution that had passed.
C15_Witness ==
    /\ kind = "http"
    /\ timing = "consistently"
    /\ lastExec.how = "error"
    /\ Len(evals) >= 1
    /\ apc = "done"

\* C16: a CLI execution records exit code 0 and stdout on success, the exit
\* code and stderr on a non-zero exit, -1 and the timed-out text when the
\* execute timeout passed, -1 and the cancelled text when the scope was
\* cancelled; on any other error execute raises.  Code and output are both
\* those of the latest execution.
C16_CLIOutcomes ==
    kind = "cli" =>
        /\ lastExec.how = "exit" =>
              /\ obs.code = lastExec.r.code
              /\ obs.text = (IF lastExec.r.code = 0 THEN lastExec.r.stdout
                                                    ELSE lastExec.r.stderr)
        /\ lastExec.how = "timeout" => obs = [code |-> -1, text |-> "timed out"]
        /\ lastExec.how = "cancel" => obs = [code |-> -1, text |-> "was cancelled"]
        /\ lastExec.how = "error" =>
              (apc = "done" /\ outcome = "raised" /\ raisedBy.chan = "execute")
        /\ lastExec.how \in {"exit", "timeout", "cancel"} => raisedBy.chan # "execute"

\* A polled CLI assertion recorded an exit with output, and then a timeout.
C16_Witness ==
    /\ kind = "cli"
    /\ Len(evals) >= 2
    /\ lastExec.how = "timeout"
    /\ obs.code = -1

(***************************************************************************)
(* Properties of Do.Concurrently (specification SpecConc).                 *)
(***************************************************************************)

\* C17: Concurrently ends only when every function has returned or panicked
\* and its goroutine is through its deferred calls; it raises exactly when
\* some function panicked, and then with the panic value recorded first; it
\* returns normally when none panicked.
C17_ConcurrentlyJoins ==
    cres.how # "none" =>
        /\ \A w \in 1..fns : wout[w] # "none" /\ wpc[w] = "done"
        /\ cres.how = "raised" <=> \E w \in 1..fns : wout[w] = "panicked"
        /\ cres.how = "raised" => (Len(recorded) >= 1 /\ cres.v = recorded[1])
        /\ cres.how = "returned" => recorded = <<>>

\* Two functions panicked, the later-started one took panicMu first, and
\* Concurrently raised its value.
C17_Witness ==
    /\ cres.how = "raised"
    /\ Len(recorded) >= 2
    /\ recorded[1] > recorded[2]

(***************************************************************************)
(* Properties of the process map (specification SpecMap).                  *)
(***************************************************************************)

\* C18: while a goroutine is inside Set (between Lock and Unlock) no other
\* goroutine is inside Set, Get or Range; and the value Get has read is that
\* of the latest Set of its key that returned, or none when no Set of the
\* key has returned.
C18_MapIsGuarded ==
    /\ \A g \in DOMAIN gpc :
          gpc[g].pc \in {"locked", "written"} =>
              \A h \in DOMAIN gpc \ {g} : gpc[h].pc = "idle"
    /\ \A g \in DOMAIN gpc :
          (gpc[g].op = "Get" /\ gpc[g].pc = "read") =>
              gpc[g].val = completed[gpc[g].key]

\* Two goroutines are inside Get at once, one of them having read a value
\* that replaced an earlier one.
C18_Witness ==
    \E g, h \in DOMAIN gpc :
        /\ g # h
        /\ gpc[g].op = "Get" /\ gpc[g].pc = "read" /\ gpc[g].val = 2
        /\ gpc[h].op = "Get" /\ gpc[h].pc = "read"
        /\ \E k \in Names : completed[k] = 1

(***************************************************************************)
(* Properties of Stop and Restart taken step by step (specification        *)
(* SpecStop).                                                              *)
(***************************************************************************)

\* C21: Stop on a running child sends SIGTERM to its group; the SIGKILL of
\* Stop comes after that SIGTERM and only once ProcessShutdownTimeout has
\* passed with the select still waiting; Stop returns only when the exit
\* has been observed by cmd.Wait; and the child goes Running, Exiting,
\* Stopped or Running, Exiting, Killed, Stopped.
C21_GracefulStop ==
    /\ \A i \in 1..Len(sent) :
          (sent[i].sig = "SIGKILL" /\ sent[i].by = "Stop") =>
              /\ sent[i].at >= ProcessShutdownTimeout
              /\ \E j \in 1..(i - 1) : sent[j].sig = "SIGTERM"
    /\ (sup.op = "Stop" /\ sup.pc = "returned") => (child = "Stopped" /\ reaped)
    /\ (Len(sent) >= 1 /\ sent[1] = [sig |-> "SIGTERM", by |-> "Stop", at |-> 0, to |-> "Running"]) =>
          life \in {<<"Running", "Exiting">>,
                    <<"Running", "Exiting", "Stopped">>,
                    <<"Running", "Exiting", "Killed">>,
                    <<"Running", "Exiting", "Killed", "Stopped">>}

\* Stop has returned after escalating: the child ignored SIGTERM for the
\* whole timeout and was killed by Stop.
C21_Witness ==
    /\ sup.op = "Stop"
    /\ sup.pc = "returned"
    /\ ~DoCtxDone
    /\ life = <<"Running", "Exiting", "Killed", "Stopped">>
    /\ sent[Len(sent)] = [sig |-> "SIGKILL", by |-> "Stop",
                          at |-> ProcessShutdownTimeout, to |-> "Exiting"]

\* C22: the replacement spawned by Restart is never alive together with the
\* child it replaces.
C22_OldExitsBeforeNew ==
    repl = "Running" => child = "Stopped"

(***************************************************************************)
(* Properties of Suite.Run under cancellation, and of what it prints       *)
(* (specification Spec).                                                   *)
(***************************************************************************)

\* C23: with the scope cancelled at the head of the loop and a test still to
\* run, Run starts no body and leaves the loop to return false; a run that
\* ended with tests left over has started none of them and returns false;
\* and Run returns only after Done has cancelled the harness scope and
\* stopped every process it collected.
C23_CancelledRunReturnsFalse ==
    /\ [](( pc \in {"done", "done_stop", "returned"} /\ idx <= Len(tests) ) =>
              /\ ret = "false"
              /\ \A i \in 1..Len(started) : started[i].pos < idx)
    /\ [](pc = "returned" => (doCancelled /\ pending = {}))
    /\ [][( pc = "loop" /\ idx <= Len(tests) /\ parentDone /\ pc' # "loop" ) =>
             /\ started' = started
             /\ \/ pc' = "done" /\ ret' = "false"
                \/ pc' = "print" /\ failed]_vars

\* After the first of two tests passed the scope was cancelled; Run has
\* returned false with a child stopped by Done.
C23_Witness ==
    /\ pc = "returned"
    /\ ret = "false"
    /\ ~failed
    /\ Len(started) >= 1
    /\ idx <= Len(tests)
    /\ Len(procs) >= 1

\* C24: when Run has returned it has printed exactly one terminal line,
\* PASSED or FAILED; it returns true exactly when that line is PASSED; and
\* every test whose body ran has exactly one line, the check mark or the
\* cross mark.
C24_OneTerminalLine ==
    LET lines(ms, pos) == {i \in 1..Len(printed) :
                             printed[i].mark \in ms /\ printed[i].pos = pos}
    IN  pc = "returned" =>
          /\ Cardinality(lines({"PASSED", "FAILED"}, 0)) = 1
          /\ ret = "true" <=> lines({"PASSED"}, 0) # {}
          /\ \A i \in 1..Len(started) :
                started[i].pos >= 1 =>
                    Cardinality(lines({"check", "cross"}, started[i].pos)) = 1

(***************************************************************************)
(* C25.  A condition that becomes true and stays true: once an evaluation  *)
(* of it has begun after it became true, eventually returns true, and a    *)
(* consistently over the same condition that follows returns true, unless  *)
(* the scope is cancelled.                                                 *)
(***************************************************************************)
C25_TrueOnceSettled ==
    /\ (/\ timing = "eventually"
        /\ firstPoll = NoFirst
        /\ pret # "none"
        /\ ~ctxDone
        /\ Settled) => pret = "true"
    /\ (/\ timing = "consistently"
        /\ firstPoll = [pret |-> "true", settled |-> TRUE]
        /\ pret # "none"
        /\ ~ctxDone) => pret = "true"

\* Both polls have returned true, the first after the condition settled
\* part-way through it.
C25_Witness ==
    /\ timing = "consistently"
    /\ firstPoll = [pret |-> "true", settled |-> TRUE]
    /\ pret = "true"
    /\ apc = "done"
    /\ ~ctxDone
    /\ Len(evalTimes) >= 1

\* The statement without the amendment: whenever the condition has become
\* true for good, eventually returns true.
C25_TrueWheneverSettled ==
    (/\ timing = "eventually"
     /\ firstPoll = NoFirst
     /\ pret # "none"
     /\ ~ctxDone
     /\ stable) => pret = "true"

C28_NullOrStringForm ==
    (jsonPath # "" /\ verdicts # <<>>) =>
        LET result == gjsonResult(jsonBody, jsonPath) IN
        verdicts[1] =
            (IF result.type = "Null"
             THEN Verdict(chk.op = "isNull")
             ELSE IF chk.op = "isNull" THEN "false"
             ELSE Verdict(CheckerCheck(chk, result.str)))

(***************************************************************************)
(* Properties of the readiness probe (specification Spec).                 *)
(***************************************************************************)

\* C29: when the child accepts no connection within ProcessStartTimeout and
\* the scope is not cancelled, the suite's process exits and no test body is
\* started afterwards; when the scope is cancelled during the probe, Start
\* returns to the body instead.
C29_ProbeFatalUnlessCancelled ==
    /\ [](probe = "notReady" => pc = "exited")
    /\ [](probe = "cancelled" => (pc # "exited" /\ parentDone))
    /\ [][pc = "exited" => (pc' = "exited" /\ started' = started)]_vars

\* A probe timed out in the first test's body with a second test still to
\* run: the process has exited and the second body was never started.
C29_Witness ==
    /\ probe = "notReady"
    /\ pc = "exited"
    /\ Len(tests) = 2
    /\ Len(started) = 1

(***************************************************************************)
(* Properties of the configuration (specification SpecCfg).                *)
(***************************************************************************)

\* C30: after WithConfig(c) each field of the suite's config is c's when that
\* is not the zero value and the default otherwise; Run uses that config,
\* and without a WithConfig call the defaults: 10 s to start and to shut
\* down, 1 s restart delay, 5 s retry timeout, 100 ms poll interval, 5 s
\* execute timeout, command ./run.sh.
C30_NonZeroWins ==
    /\ sconfig # <<>> =>
          \A f \in TextFields \cup DurationFields :
              sconfig[1][f] = (IF userCfg[f] = Zero(f) THEN DefaultConfig[f]
                               ELSE userCfg[f])
    /\ (effective # <<>> /\ sconfig # <<>>) => effective = sconfig
    /\ (effective # <<>> /\ sconfig = <<>>) =>
          /\ effective[1].ProcessStartTimeout = 10000
          /\ effective[1].ProcessShutdownTimeout = 10000
          /\ effective[1].ProcessRestartDelay = 1000
          /\ effective[1].DefaultRetryTimeout = 5000
          /\ effective[1].RetryPollInterval = 100
          /\ effective[1].ExecuteTimeout = 5000
          /\ effective[1].Command = "./run.sh"

\* Run uses a config that overrides the command and the poll interval and
\* keeps the default start timeout.
C30_Witness ==
    /\ effective # <<>>
    /\ sconfig # <<>>
    /\ userCfg.Command = "./x.sh"
    /\ userCfg.RetryPollInterval = 1
    /\ userCfg.ProcessStartTimeout = 0
    /\ effective[1].Command = "./x.sh"
    /\ effective[1].RetryPollInterval = 1
    /\ effective[1].ProcessStartTimeout = 10000

(***************************************************************************)
(* Properties of `lsfr next` (specification SpecNext).                     *)
(***************************************************************************)

\* C31: a command changes the current stage only if it is `lsfr next`, only
\* to the stage that follows the current one in the stage order, and only
\* if the current stage was recorded as completed or its tests passed in
\* that invocation; when the tests fail lsfr.yaml is left as it was; at the
\* final stage the current stage is kept.
C31_NextAdvancesByOne ==
    \A i \in 1..Len(invocations) :
        LET e == invocations[i]
            order == StageOrder(stageCount)
            was == StageIndex(order, e.before.current)
            wasRecorded == isStageCompleted(e.before.current, e.before.completed)
        IN  /\ e.after.current # e.before.current =>
                  /\ e.cmd = "next"
                  /\ StageIndex(order, e.after.current) = was + 1
                  /\ wasRecorded \/ e.passed
            /\ (e.cmd = "next" /\ ~wasRecorded /\ ~e.passed) => e.after = e.before
            /\ was = stageCount - 1 => e.after.current = e.before.current

\* `lsfr next` failed the tests of the first stage, then passed them and
\* moved on to the second.
C31_Witness ==
    /\ stageCount = 3
    /\ Len(invocations) = 2
    /\ invocations[1].cmd = "next"
    /\ invocations[1].after = invocations[1].before
    /\ invocations[2].cmd = "next"
    /\ invocations[2].passed
    /\ yaml = [current |-> "s2", completed |-> <<"s1">>]

\* C38: after any sequence of commands on the file `lsfr new` wrote, the
\* completed list names no stage twice and names every stage that precedes
\* the current one in the stage order.
C38_CompletedPrefix ==
    LET order == StageOrder(stageCount) IN
    /\ \A i, j \in 1..Len(yaml.completed) :
           yaml.completed[i] = yaml.completed[j] => i = j
    /\ \A k \in 1..StageIndex(order, yaml.current) :
           isStageCompleted(order[k], yaml.completed)

\* Three `lsfr next` took a challenge of two stages to its end: both stages
\* are completed, the last one added at the final stage.
C38_Witness ==
    /\ stageCount = 2
    /\ Len(invocations) = 3
    /\ yaml = [current |-> "s2", completed |-> <<"s1", "s2">>]
    /\ invocations[3].before = yaml

(***************************************************************************)
(* Properties of the supervisor under a cancelled scope (specification     *)
(* SpecCancelled).                                                         *)
(***************************************************************************)

\* C32: with the scope cancelled, Start spawns no child and leaves the
\* process map as it is; Restart spawns no child either, stops the old one,
\* and leaves the name's record, with its child, port and args, in the map.
C32_NoSpawnOnceCancelled ==
    [][\A name \in Names :
          /\ \/ processes' = processes /\ procs' = procs
             \/ ~DoCtxDone
             \/ ~(\E args \in ArgLists : Start(name, args))
          /\ \/ name \notin DOMAIN processes
             \/ /\ Len(procs') = Len(procs)
                /\ DOMAIN processes' = DOMAIN processes
                /\ processes'[name].pid = processes[name].pid
                /\ processes'[name].realPort = processes[name].realPort
                /\ processes'[name].args = processes[name].args
                /\ processes[name].pid # 0 =>
                      ~Alive(procs'[processes[name].pid])
             \/ ~DoCtxDone
             \/ ~(\E sig \in {"SIGTERM", "SIGKILL"}, graceful \in BOOLEAN :
                     Restart(name, sig, graceful))]_vars

\* The scope was cancelled with one child running; the body still runs, the
\* child has been stopped and reaped, and its record is the one in the map.
C32_Witness ==
    /\ DoCtxDone
    /\ pc = "body"
    /\ Len(procs) = 1
    /\ procs[1] = "reaped"
    /\ "n1" \in DOMAIN processes
    /\ processes["n1"].pid = 1
    /\ ~processes["n1"].logOpen

(***************************************************************************)
(* C33: a record is in the process map only once its readiness probe has   *)
(* succeeded or the scope was cancelled, and while Restart(name) runs a     *)
(* concurrent HTTP(name, ...) always finds the name and resolves to the     *)
(* port of the first Start.                                                 *)
(***************************************************************************)
C33_VisibleOnceProbed ==
    /\ entry # <<>>
    /\ entry[1].how \in {"ready", "cancelled"}
    /\ spawning # <<>> => entry[1].gen < spawning[1].gen
    /\ \A i \in 1..Len(lookups) :
           lookups[i].found /\ lookups[i].port = 1

\* A lookup ran while the replacement was being probed, and the replacement
\* is now the registered record.
C33_Witness ==
    /\ entry # <<>> /\ entry[1].gen = 2
    /\ \E i \in 1..Len(lookups) :
           lookups[i].op = "Restart" /\ lookups[i].pc = "probe"

C35_NotIsComplement ==
    ( /\ jsonPath # ""
      /\ chk.op = "not"
      /\ verdicts # <<>>
      /\ gjsonResult(jsonBody, jsonPath).type # "Null" ) =>
        (verdicts[1] = "true") =
            (FieldCheck(jsonPath, chk.checker[1], jsonBody) = "false")

(***************************************************************************)
(* C36: JSON(path, HasLen(n)) on a body whose field at the path is         *)
(* missing, null, a number or a boolean answers false and never panics.     *)
(***************************************************************************)
C36_HasLenMismatchNoPanic ==
    ( /\ jsonPath # ""
      /\ chk.op = "hasLen"
      /\ verdicts # <<>>
      /\ gjsonResult(jsonBody, jsonPath).type \in {"Null", "Number", "Bool"} ) =>
        \A i \in 1..Len(verdicts) : verdicts[i] = "false"

(***************************************************************************)
(* C37: Do.Done terminates, whatever the children do on SIGTERM and         *)
(* whatever Stop and Kill calls came before: once Done has cancelled the    *)
(* scope, every Stop it calls returns and Done returns.                     *)
(***************************************************************************)
C37_DoneTerminates == doCancelled ~> (pc = "returned")

\* Done has returned after its Stop, the only call made on the child, had
\* to send SIGKILL when the shutdown timeout had passed.
C37_Witness ==
    /\ pc = "returned"
    /\ doCancelled
    /\ calls = 1
    /\ \E i \in 1..Len(sent) :
           /\ sent[i].sig = "SIGKILL"
           /\ sent[i].by = "Stop"
           /\ sent[i].at >= ProcessShutdownTimeout

(***************************************************************************)
(* C39: the log file of a record is closed at most once, and once no Stop  *)
(* or Kill is running on the name its handle is cleared exactly if it was   *)
(* closed, for every interleaving of Stop and Kill calls on the name.       *)
(***************************************************************************)
C39_LogClosedOnce ==
    /\ closes <= 1
    /\ (\A g \in 1..MaxFns : closer[g].pc \in {"idle", "returned"}) =>
           (logFile = (closes = 0))

(***************************************************************************)
(* C40: with a timeout of zero or less, eventually returns false and       *)
(* consistently returns true with no evaluation of the condition; with a    *)
(* positive timeout and no cancellation the condition is evaluated at       *)
(* least once and at most ceil(timeout / pollInterval) times, every         *)
(* evaluation starting less than one pollInterval after the deadline.       *)
(***************************************************************************)
Ceil(a, b) == (a + b - 1) \div b

C40_EvaluationCount ==
    /\ timeout <= 0 =>
           /\ evalTimes = <<>>
           /\ apc \in {"check", "done"} =>
                  pret = (IF timing = "eventually" THEN "false" ELSE "true")
    /\ (timeout > 0 /\ ~ctxDone) =>
           /\ apc \in {"check", "done"} => Len(evalTimes) >= 1
           /\ Len(evalTimes) <= Ceil(timeout, pollInterval)
           /\ \A i \in 1..Len(evalTimes) :
                  /\ evalTimes[i] >= t0 + i * pollInterval
                  /\ evalTimes[i] < t0 + timeout + pollInterval

\* consistently has returned after ceil(timeout / pollInterval) evaluations,
\* the last of which began after the deadline.
C40_Witness ==
    /\ timing = "consistently"
    /\ timeout > 0
    /\ ~ctxDone
    /\ apc = "done"
    /\ pret = "true"
    /\ Len(evalTimes) = Ceil(timeout, pollInterval)
    /\ Len(evalTimes) >= 2
    /\ evalTimes[Len(evalTimes)] > deadline

====
